---- MODULE Spec2Model ----
(***************************************************************************)
(* A model of go-rue's chain configuration (params/config.go) and of the   *)
(* Rue full node service (rue/backend.go).                                 *)
(*                                                                         *)
(* The module holds several specifications over one set of variables:     *)
(*   SpecAccessor     the fork accessors Is<Fork>(num) of ChainConfig      *)
(*   SpecCompat       ChainConfig.CheckCompatible and its fixed-point loop *)
(*   SpecEngine       CreateConsensusEngine                                *)
(*   SpecBeneficiary  concurrent Ruebase() / SetRuebase() callers          *)
(*   SpecStop         Rue.Stop, called once or twice                       *)
(* Each specification leaves the variables of the others at their idle     *)
(* values.                                                                 *)
(***************************************************************************)
EXTENDS Integers, Sequences, FiniteSets, TLC

VARIABLES
  \* ---- SpecAccessor: one accessor evaluation
  cfg,        \* the receiver *ChainConfig
  num,        \* the block number handed to the accessors
  active,     \* accessor name -> the boolean it returned
  apc,        \* "call" before the accessors ran, "done" after
  \* ---- SpecCompat: one CheckCompatible call
  stored,     \* the receiver c: the stored configuration
  newcfg,     \* the candidate configuration
  height,     \* the head height argument
  bhead,      \* the loop's bhead
  lasterr,    \* the loop's lasterr
  iters,      \* number of checkCompatible invocations made so far
  cpc,        \* "enter", "loop", "done"
  \* ---- SpecEngine: one CreateConsensusEngine call
  chainConfig, \* the engine sub-configs of the *ChainConfig: Clique, Ethash
  powConfig,   \* the *ruehash.Config
  engine,      \* the consensus.Engine returned
  epc,         \* "call", "done"
  \* ---- SpecStop: callers of Rue.Stop
  stopDbUpgrade, \* TRUE iff s.stopDbUpgrade is not nil
  lesServer,     \* TRUE iff a light server is attached (s.lesServer is not nil)
  shutdownChan,  \* "open" or "closed"
  closes,        \* number of times close(s.shutdownChan) closed the channel
  stopPc,        \* per caller: "idle", "run", "incall", "returned", "panicked"
  stopAt,        \* per caller: index in Stop's statement list
  stopTrace,     \* per caller: the calls Stop made and their returns, in order
  \* ---- SpecBeneficiary: concurrent callers of Ruebase and SetRuebase
  ruebase,     \* s.ruebase, as the two halves of the address
  readers,     \* s.lock: the callers holding it shared
  writer,      \* s.lock: the caller holding it exclusively, or 0
  minerBase,   \* the beneficiary the miner was last handed by SetRuebase
  pc,          \* per caller: the statement it is at
  eb,          \* per caller: Ruebase's local ruebase / SetRuebase's argument
  calls,       \* number of calls started so far
  \* history variables, read by the properties only
  lastCall,    \* the call that returned last: what it returned, and how
  saw,         \* per caller: the wallets its Ruebase call found, once it asked
  expect,      \* per caller: the value of resolved when its Ruebase call began
  lastSet,     \* the address of the SetRuebase that wrote s.ruebase last
  resolved     \* addresses returned by lazily resolving Ruebase calls since
               \* the last SetRuebase began
  ,
  \* ---- SpecStart: one Start call
  srvrMaxPeers, \* srvr.MaxPeers
  lightServ,    \* s.config.LightServ
  lightPeers,   \* s.config.LightPeers
  startCalls,   \* the calls Start made, in order, with their argument
  startPc,      \* "call", "done"
  \* ---- SpecMining: StartMining / StopMining calls and the miner's goroutines
  amWallets,     \* the wallets of s.accountManager
  signer,        \* what clique.Authorize was last handed, <<>> before
  acceptTxs,     \* s.protocolManager.acceptTxs
  mining,        \* TRUE iff the miner is mining
  pendingStarts, \* beneficiaries of the `go s.miner.Start(eb)` not yet run
  mpc,           \* the statement the caller of StartMining is at
  mlocal,        \* StartMining's argument local
  meb,           \* StartMining's local eb
  mresult,       \* what the last StartMining call returned, "" while it runs
  mtrace,        \* the calls the current or last StartMining call made, and
                 \* the calls of StopMining since it returned
  mcalls,        \* number of StartMining and StopMining calls so far
  \* ---- SpecRules: calls of ChainConfig.Rules
  rcfg,     \* the receiver *ChainConfig; its ChainId is a pointer into heap
  rnum,     \* the block number handed to Rules
  heap,     \* the big.Int values allocated so far, by address 1, 2, ...
  rules,    \* the Rules structs returned so far, in order
  \* ---- SpecNew: one call of New
  newInput,  \* config, and what the calls New makes outside this file return
  newPc,     \* the statement New is at
  newTrace,  \* the calls New made, in order, with their arguments
  newResult  \* what New returned, "" while it runs

accessorVars == <<cfg, num, active, apc>>
compatVars == <<stored, newcfg, height, bhead, lasterr, iters, cpc>>
engineVars == <<chainConfig, powConfig, engine, epc>>
stopVars ==
  <<stopDbUpgrade, lesServer, shutdownChan, closes, stopPc, stopAt, stopTrace>>
baseVars ==
  <<ruebase, readers, writer, minerBase, pc, eb, calls,
    lastCall, saw, expect, lastSet, resolved>>
startVars == <<srvrMaxPeers, lightServ, lightPeers, startCalls, startPc>>
miningVars ==
  <<amWallets, signer, acceptTxs, mining, pendingStarts, mpc, mlocal, meb,
    mresult, mtrace, mcalls>>
rulesVars == <<rcfg, rnum, heap, rules>>
newVars == <<newInput, newPc, newTrace, newResult>>
vars == <<accessorVars, compatVars, engineVars, stopVars, baseVars, startVars, miningVars, rulesVars, newVars>>

(***************************************************************************)
(* Bounds.                                                                 *)
(***************************************************************************)
\* Scheduled heights and head heights are drawn from 0..MaxHeight.
MaxHeight == 2
\* The cache counts of the ruehash configuration are drawn from 0..MaxCaches.
MaxCaches == 1
\* Number of concurrent callers of Stop.
NumStoppers == 2
\* Number of concurrent callers of Ruebase / SetRuebase.
NumCallers == 2
\* Number of calls made at most, over all callers.
MaxCalls == 3
\* Account addresses are 1..NumAddrs; 0 is the zero address.
NumAddrs == 2
\* The account manager holds at most MaxWallets wallets.
MaxWallets == 2
\* srvr.MaxPeers and LightPeers are drawn from 0..MaxPeerCount.
MaxPeerCount == 5

\* Number of StartMining and StopMining calls made at most.
MaxMiningCalls == 2

\* Number of Rules calls made at most.
MaxRulesCalls == 2

\* A nil *big.Int.
Nil == 0 - 1

\* A pointer to a struct is <<>> when nil and <<the struct>> otherwise.
NilPtr == <<>>

Heights == 0 .. MaxHeight
HeadHeights == 0 .. MaxHeight
OptHeights == {Nil} \cup Heights
\* Chain identifiers: unset, MainnetChainConfig's and AllEthashProtocolChanges'.
OptChainIds == {Nil, 1, 1337}

Min(a, b) == IF a <= b THEN a ELSE b

(***************************************************************************)
(* params/config.go: the fork accessors.                                   *)
(***************************************************************************)
\* The *Block fields the accessors and checkCompatible read.
BlockFields ==
  {"AndromedaBlock", "AquinasBlock", "BerlinBlock", "BodesBlock", "ButerinBlock",
   "ByzantiumBlock", "ChenXingBlock", "CiceroBlock", "DAOForkBlock", "DescartesBlock",
   "DunedinBlock", "EIP150Block", "EIP155Block", "EIP158Block", "EdinburghBlock",
   "FrontierBlock", "HoagsBlock", "HobbesBlock", "HomesteadBlock", "HopeBlock",
   "HorizonBlock", "HumeBlock", "InstanbulBlock", "JupiterBlock", "KantBlock",
   "KitchenerBlock", "KyotoBlock", "LeibnizBlock", "LockeBlock", "MayallsBlock",
   "MilkyWayBlock", "NewtonBlock", "NovaBlock", "ParmenidesBlock", "PekingBlock",
   "PlatoBlock", "PlutoBlock", "PythagorasBlock", "RennisanceBlock", "RousseauBlock",
   "SaoHaoBlock", "SettlementBlock", "SmithBlock", "SocratesBlock", "SolBlock",
   "SpinozaBlock", "TaihakuseiBlock", "ThalesBlock", "VoltaireBlock", "WaterlooBlock",
   "ZenoBlock"}

\* The accessors Is<name>(num) that config.go declares.  IsFrontier is declared
\* twice (the second time where an accessor for BodesBlock would stand); there
\* is no IsBodes and no IsHomestead.
AccessorNames ==
  {"Frontier", "Horizon", "Hope", "Settlement", "Byzantium", "Dunedin", "Berlin",
   "Peking", "Rennisance", "Edinburgh", "Kitchener", "Waterloo", "Kyoto", "Instanbul",
   "Nova", "Sol", "ChenXing", "Taihakusei", "SaoHao", "Jupiter", "Pluto", "MilkyWay",
   "Andromeda", "Hoags", "Mayalls", "Thales", "Pythagoras", "Parmenides", "Zeno",
   "Socrates", "Plato", "Cicero", "Aquinas", "Descartes", "Hobbes", "Spinoza", "Locke",
   "Newton", "Leibniz", "Voltaire", "Hume", "Rousseau", "Smith", "Kant", "Buterin",
   "DAOFork", "EIP150", "EIP155", "EIP158"}

\* For each accessor, the field its body hands to isForked.
AccessorReads ==
  [Frontier |-> "FrontierBlock", Horizon |-> "HorizonBlock", Hope |-> "HopeBlock",
   Settlement |-> "SettlementBlock", Byzantium |-> "ByzantiumBlock",
   Dunedin |-> "DunedinBlock", Berlin |-> "BerlinBlock", Peking |-> "PekingBlock",
   Rennisance |-> "RennisanceBlock", Edinburgh |-> "EdinburghBlock",
   Kitchener |-> "KitchenerBlock", Waterloo |-> "WaterlooBlock",
   Kyoto |-> "KyotoBlock", Instanbul |-> "InstanbulBlock", Nova |-> "NovaBlock",
   Sol |-> "SolBlock", ChenXing |-> "ChenXingBlock", Taihakusei |-> "TaihakuseiBlock",
   SaoHao |-> "FrontierBlock", Jupiter |-> "JupiterBlock", Pluto |-> "PlutoBlock",
   MilkyWay |-> "MilkyWayBlock", Andromeda |-> "AndromedaBlock",
   Hoags |-> "HoagsBlock", Mayalls |-> "MayallsBlock", Thales |-> "ThalesBlock",
   Pythagoras |-> "PythagorasBlock", Parmenides |-> "ParmenidesBlock",
   Zeno |-> "ZenoBlock", Socrates |-> "SocratesBlock", Plato |-> "PlatoBlock",
   Cicero |-> "CiceroBlock", Aquinas |-> "AquinasBlock",
   Descartes |-> "DescartesBlock", Hobbes |-> "HobbesBlock",
   Spinoza |-> "SpinozaBlock", Locke |-> "LockeBlock", Newton |-> "NewtonBlock",
   Leibniz |-> "LeibnizBlock", Voltaire |-> "VoltaireBlock", Hume |-> "HumeBlock",
   Rousseau |-> "RousseauBlock", Smith |-> "SmithBlock", Kant |-> "KantBlock",
   Buterin |-> "ButerinBlock", DAOFork |-> "DAOForkBlock", EIP150 |-> "EIP150Block",
   EIP155 |-> "EIP155Block", EIP158 |-> "EIP158Block"]

\* Mutant of isForked: the fork is active at its own block only.
isForked_OnlyAtBlock(s, head) ==
  IF s = Nil \/ head = Nil THEN FALSE ELSE s = head

\* isForked returns whether a fork scheduled at block s is active at the given
\* head block.
isForked(s, head) ==
  IF s = Nil \/ head = Nil THEN FALSE ELSE s <= head

\* func (c *ChainConfig) Is<name>(num *big.Int) bool
IsActive(c, name, n) == isForked(c[AccessorReads[name]], n)

IsDAOFork(c, n) == IsActive(c, "DAOFork", n)
IsEIP158(c, n) == IsActive(c, "EIP158", n)

\* ---- SpecAccessor ------------------------------------------------------
\* Configurations for the accessors: every fork scheduled at a common height
\* (or unscheduled), except one fork that has a height of its own.
AccessorConfigs ==
  { [f \in BlockFields |-> IF f = g THEN v ELSE b] :
      g \in BlockFields, v \in OptHeights, b \in OptHeights }

\* No accessor has answered yet.
NoAnswers == <<>>

InitAccessor ==
  /\ cfg \in AccessorConfigs
  /\ num \in HeadHeights
  /\ active = NoAnswers
  /\ apc = "call"

\* Every accessor is called once with num.
EvalAccessors ==
  /\ apc = "call"
  /\ active' = [a \in AccessorNames |-> IsActive(cfg, a, num)]
  /\ apc' = "done"
  /\ UNCHANGED <<cfg, num>>
  /\ UNCHANGED <<compatVars, engineVars, stopVars, baseVars,
                 startVars, miningVars, rulesVars, newVars>>

(***************************************************************************)
(* params/config.go: Rules.                                                *)
(***************************************************************************)
\* A *big.Int is <<>> when nil and <<a>> when it points at heap[a].
\* new(big.Int): the heap with one more value, 0, at address Len + 1.
NewBigInt(hp) == Append(hp, 0)

\* c.IsHomestead(num): config.go calls it and does not define it.
IsHomestead(c, n) == isForked(c.HomesteadBlock, n)

\* Mutant of Rules: the snapshot is handed chainId itself, not a copy of it.
Rules_NoCopy(c, n, hp) ==
  LET h1 == IF c.ChainId = NilPtr THEN NewBigInt(hp) ELSE hp
      chainId == IF c.ChainId = NilPtr THEN <<Len(h1)>> ELSE c.ChainId
  IN  [heap |-> h1,
       rules |-> [ChainId |-> chainId, IsHomestead |-> IsHomestead(c, n),
                  IsEIP150 |-> IsActive(c, "EIP150", n),
                  IsEIP155 |-> IsActive(c, "EIP155", n),
                  IsEIP158 |-> IsActive(c, "EIP158", n),
                  IsByzantium |-> IsActive(c, "Byzantium", n)]]

\* func (c *ChainConfig) Rules(num *big.Int) Rules, with the heap before the
\* call; the heap after it and the struct returned:
\*   chainId := c.ChainId
\*   if chainId == nil { chainId = new(big.Int) }
\*   return Rules{ChainId: new(big.Int).Set(chainId), IsHomestead: ...}
Rules(c, n, hp) ==
  LET h1 == IF c.ChainId = NilPtr THEN NewBigInt(hp) ELSE hp
      chainId == IF c.ChainId = NilPtr THEN <<Len(h1)>> ELSE c.ChainId
      h2 == [NewBigInt(h1) EXCEPT ![Len(h1) + 1] = h1[chainId[1]]]
  IN  [heap |-> h2,
       rules |-> [ChainId |-> <<Len(h2)>>, IsHomestead |-> IsHomestead(c, n),
                  IsEIP150 |-> IsActive(c, "EIP150", n),
                  IsEIP155 |-> IsActive(c, "EIP155", n),
                  IsEIP158 |-> IsActive(c, "EIP158", n),
                  IsByzantium |-> IsActive(c, "Byzantium", n)]]

\* ---- SpecRules --------------------------------------------------------
\* The fork heights Rules looks at.
RulesBlocks ==
  {"HomesteadBlock", "EIP150Block", "EIP155Block", "EIP158Block", "ByzantiumBlock"}

\* Configurations for Rules: the forks scheduled at a common height (or
\* unscheduled), except one fork that has a height of its own; the chain id is
\* nil or the big.Int at address 1.
RulesConfigs ==
  { [f \in RulesBlocks \cup {"ChainId"} |->
       IF f = "ChainId" THEN id ELSE IF f = g THEN v ELSE b] :
      g \in RulesBlocks, v \in OptHeights, b \in OptHeights, id \in {NilPtr, <<1>>} }

\* Values a big.Int is given: 0, the chain ids of config.go, and another.
BigIntValues == {0, 1, 1337, 2018}

InitRules ==
  /\ rcfg \in RulesConfigs
  /\ rnum \in OptHeights
  /\ heap \in IF rcfg.ChainId = NilPtr THEN {<<>>} ELSE {<<1>>, <<1337>>}
  /\ rules = <<>>

\* A caller calls c.Rules(num) and keeps the struct.
RulesCall ==
  /\ Len(rules) < MaxRulesCalls
  /\ LET r == Rules(rcfg, rnum, heap) IN
       /\ heap' = r.heap
       /\ rules' = Append(rules, [rules |-> r.rules,
                                  chainId |-> r.heap[r.rules.ChainId[1]]])
  /\ UNCHANGED <<rcfg, rnum>>
  /\ UNCHANGED <<accessorVars, compatVars, engineVars, stopVars,
                 baseVars, startVars, miningVars, newVars>>

\* A caller changes the ChainId of a struct Rules returned to it, in place.
SnapshotSetChainId(i, v) ==
  /\ i \in 1 .. Len(rules)
  /\ heap[rules[i].rules.ChainId[1]] # v
  /\ heap' = [heap EXCEPT ![rules[i].rules.ChainId[1]] = v]
  /\ UNCHANGED <<rcfg, rnum, rules>>
  /\ UNCHANGED <<accessorVars, compatVars, engineVars, stopVars,
                 baseVars, startVars, miningVars, newVars>>

(***************************************************************************)
(* params/config.go: CheckCompatible.                                      *)
(***************************************************************************)
\* Mutant of configNumEqual: a nil number is equal to nothing, not even to nil.
configNumEqual_NilUnequal(x, y) ==
  IF x = Nil \/ y = Nil THEN FALSE ELSE x = y

\* Mutant of configNumEqual: a nil number is equal to every number.
configNumEqual_NilMatches(x, y) ==
  IF x = Nil \/ y = Nil THEN TRUE ELSE x = y

configNumEqual(x, y) ==
  IF x = Nil THEN y = Nil
  ELSE IF y = Nil THEN x = Nil
  ELSE x = y

\* Mutant of isForkIncompatible: the fork has to be active under both schedules.
isForkIncompatible_BothForked(s1, s2, head) ==
  (isForked(s1, head) /\ isForked(s2, head)) /\ ~configNumEqual(s1, s2)

\* isForkIncompatible returns true if a fork scheduled at s1 cannot be
\* rescheduled to block s2 because head is already past the fork.
isForkIncompatible(s1, s2, head) ==
  (isForked(s1, head) \/ isForked(s2, head)) /\ ~configNumEqual(s1, s2)

\* A nil *ConfigCompatError.
NilErr == [What |-> "", StoredConfig |-> Nil, NewConfig |-> Nil, RewindTo |-> 0]

\* Mutant of newCompatError: the comparison of the two heights is reversed, so
\* the higher of two defined heights is taken.
newCompatError_Higher(what, storedblock, newblock) ==
  LET rew == IF storedblock = Nil THEN newblock
             ELSE IF newblock = Nil \/ storedblock > newblock THEN storedblock
             ELSE newblock
  IN  [What |-> what, StoredConfig |-> storedblock, NewConfig |-> newblock,
       RewindTo |-> IF rew # Nil /\ rew > 0 THEN rew - 1 ELSE 0]

\* Mutant of newCompatError: the rewind target is the lower height itself.
newCompatError_NoDecrement(what, storedblock, newblock) ==
  LET rew == IF storedblock = Nil THEN newblock
             ELSE IF newblock = Nil \/ storedblock < newblock THEN storedblock
             ELSE newblock
  IN  [What |-> what, StoredConfig |-> storedblock, NewConfig |-> newblock,
       RewindTo |-> IF rew # Nil THEN rew ELSE 0]

\* Mutant of newCompatError: the first case keeps the stored height, so a fork
\* the stored configuration does not schedule leaves no height to rewind below.
newCompatError_StoredFirst(what, storedblock, newblock) ==
  LET rew == IF storedblock = Nil THEN storedblock
             ELSE IF newblock = Nil \/ storedblock < newblock THEN storedblock
             ELSE newblock
  IN  [What |-> what, StoredConfig |-> storedblock, NewConfig |-> newblock,
       RewindTo |-> IF rew # Nil /\ rew > 0 THEN rew - 1 ELSE 0]

newCompatError(what, storedblock, newblock) ==
  LET rew == IF storedblock = Nil THEN newblock
             ELSE IF newblock = Nil \/ storedblock < newblock THEN storedblock
             ELSE newblock
  IN  [What |-> what, StoredConfig |-> storedblock, NewConfig |-> newblock,
       RewindTo |-> IF rew # Nil /\ rew > 0 THEN rew - 1 ELSE 0]

\* Mutant of checkCompatible: the support flags are compared whether or not
\* the DAO fork is active at head.
checkCompatible_FlagAlways(c, n, head) ==
  IF isForkIncompatible(c.HomesteadBlock, n.HomesteadBlock, head)
    THEN newCompatError("Homestead fork block", c.HomesteadBlock, n.HomesteadBlock)
  ELSE IF isForkIncompatible(c.DAOForkBlock, n.DAOForkBlock, head)
    THEN newCompatError("DAO fork block", c.DAOForkBlock, n.DAOForkBlock)
  ELSE IF c.DAOForkSupport # n.DAOForkSupport
    THEN newCompatError("DAO fork support flag", c.DAOForkBlock, n.DAOForkBlock)
  ELSE IF isForkIncompatible(c.EIP150Block, n.EIP150Block, head)
    THEN newCompatError("EIP150 fork block", c.EIP150Block, n.EIP150Block)
  ELSE IF isForkIncompatible(c.EIP155Block, n.EIP155Block, head)
    THEN newCompatError("EIP155 fork block", c.EIP155Block, n.EIP155Block)
  ELSE IF isForkIncompatible(c.EIP158Block, n.EIP158Block, head)
    THEN newCompatError("EIP158 fork block", c.EIP158Block, n.EIP158Block)
  ELSE IF IsEIP158(c, head) /\ ~configNumEqual(c.ChainId, n.ChainId)
    THEN newCompatError("EIP158 chain ID", c.EIP158Block, n.EIP158Block)
  ELSE IF isForkIncompatible(c.ByzantiumBlock, n.ByzantiumBlock, head)
    THEN newCompatError("Byzantium fork block", c.ByzantiumBlock, n.ByzantiumBlock)
  ELSE NilErr

checkCompatible(c, n, head) ==
  IF isForkIncompatible(c.HomesteadBlock, n.HomesteadBlock, head)
    THEN newCompatError("Homestead fork block", c.HomesteadBlock, n.HomesteadBlock)
  ELSE IF isForkIncompatible(c.DAOForkBlock, n.DAOForkBlock, head)
    THEN newCompatError("DAO fork block", c.DAOForkBlock, n.DAOForkBlock)
  ELSE IF IsDAOFork(c, head) /\ c.DAOForkSupport # n.DAOForkSupport
    THEN newCompatError("DAO fork support flag", c.DAOForkBlock, n.DAOForkBlock)
  ELSE IF isForkIncompatible(c.EIP150Block, n.EIP150Block, head)
    THEN newCompatError("EIP150 fork block", c.EIP150Block, n.EIP150Block)
  ELSE IF isForkIncompatible(c.EIP155Block, n.EIP155Block, head)
    THEN newCompatError("EIP155 fork block", c.EIP155Block, n.EIP155Block)
  ELSE IF isForkIncompatible(c.EIP158Block, n.EIP158Block, head)
    THEN newCompatError("EIP158 fork block", c.EIP158Block, n.EIP158Block)
  ELSE IF IsEIP158(c, head) /\ ~configNumEqual(c.ChainId, n.ChainId)
    THEN newCompatError("EIP158 chain ID", c.EIP158Block, n.EIP158Block)
  ELSE IF isForkIncompatible(c.ByzantiumBlock, n.ByzantiumBlock, head)
    THEN newCompatError("Byzantium fork block", c.ByzantiumBlock, n.ByzantiumBlock)
  ELSE NilErr

\* ---- SpecCompat --------------------------------------------------------
\* The fork heights checkCompatible compares, in the order it compares them.
CompatBlocks ==
  <<"HomesteadBlock", "DAOForkBlock", "EIP150Block", "EIP155Block", "EIP158Block",
    "ByzantiumBlock">>

\* An unscheduled fork sorts after every scheduled one.
SortKey(h) == IF h = Nil THEN MaxHeight + 1 ELSE h

\* Fork heights, non-decreasing in fork order.
SortedHeights ==
  { h \in [1 .. Len(CompatBlocks) -> OptHeights] :
      \A i \in 1 .. (Len(CompatBlocks) - 1) : SortKey(h[i]) <= SortKey(h[i + 1]) }

\* Stored configurations: heights non-decreasing in fork order.
StoredConfigs ==
  { [HomesteadBlock |-> h[1], DAOForkBlock |-> h[2], DAOForkSupport |-> sup,
     EIP150Block |-> h[3], EIP155Block |-> h[4], EIP158Block |-> h[5],
     ByzantiumBlock |-> h[6], ChainId |-> id] :
      h \in SortedHeights, sup \in BOOLEAN, id \in OptChainIds }

\* c with one field given any value (c itself included).
OneFieldChanged(c) ==
  { [c EXCEPT ![CompatBlocks[i]] = v] : i \in 1 .. Len(CompatBlocks), v \in OptHeights }
    \cup { [c EXCEPT !.ChainId = id] : id \in OptChainIds }
    \cup { [c EXCEPT !.DAOForkSupport = sup] : sup \in BOOLEAN }

\* Candidate configurations: the stored one with at most two fields changed.
Candidates(c) == UNION { OneFieldChanged(d) : d \in OneFieldChanged(c) }

InitCompat ==
  /\ stored \in StoredConfigs
  /\ newcfg \in Candidates(stored)
  /\ height \in HeadHeights
  /\ bhead = Nil
  /\ lasterr = NilErr
  /\ iters = 0
  /\ cpc = "enter"

\* The calls whose stored schedule supports the DAO fork and has chain id 1:
\* checkCompatible only asks whether flags and chain ids differ, so every call
\* runs as one of these does.
InitCompatLoop ==
  /\ stored \in { c \in StoredConfigs : c.DAOForkSupport /\ c.ChainId = 1 }
  /\ newcfg \in Candidates(stored)
  /\ height \in HeadHeights
  /\ bhead = Nil
  /\ lasterr = NilErr
  /\ iters = 0
  /\ cpc = "enter"

\* bhead := new(big.Int).SetUint64(height); var lasterr *ConfigCompatError
CompatEnter ==
  /\ cpc = "enter"
  /\ bhead' = height
  /\ lasterr' = NilErr
  /\ cpc' = "loop"
  /\ UNCHANGED <<stored, newcfg, height, iters>>
  /\ UNCHANGED <<accessorVars, engineVars, stopVars, baseVars,
                 startVars, miningVars, rulesVars, newVars>>

\* Mutant of LoopExits: the loop goes on until there is no error.
LoopExits_OnlyOnNil(err, last) ==
  err = NilErr

\* Mutant of LoopExits: the loop stops at the second error, whatever it says.
LoopExits_AtSecondError(err, last) ==
  err = NilErr \/ last # NilErr

\* The loop's exit test on the error of this iteration.
LoopExits(err, last) ==
  err = NilErr \/ (last # NilErr /\ err.RewindTo = last.RewindTo)

\* One iteration that does not leave the loop.
CompatIterate ==
  /\ cpc = "loop"
  /\ LET err == checkCompatible(stored, newcfg, bhead) IN
       /\ ~LoopExits(err, lasterr)
       /\ lasterr' = err
       /\ bhead' = err.RewindTo
  /\ iters' = iters + 1
  /\ UNCHANGED <<stored, newcfg, height, cpc>>
  /\ UNCHANGED <<accessorVars, engineVars, stopVars, baseVars,
                 startVars, miningVars, rulesVars, newVars>>

\* The iteration that breaks; CheckCompatible returns lasterr.
CompatBreak ==
  /\ cpc = "loop"
  /\ LoopExits(checkCompatible(stored, newcfg, bhead), lasterr)
  /\ iters' = iters + 1
  /\ cpc' = "done"
  /\ UNCHANGED <<stored, newcfg, height, bhead, lasterr>>
  /\ UNCHANGED <<accessorVars, engineVars, stopVars, baseVars,
                 startVars, miningVars, rulesVars, newVars>>

(***************************************************************************)
(* rue/backend.go: CreateConsensusEngine.                                  *)
(***************************************************************************)
\* ruehash's modes, and a value that is none of them.
PowModes ==
  {"ModeNormal", "ModeShared", "ModeTest", "ModeFake", "ModeFullFake", "ModeOther"}

\* ctx.ResolvePath(path): the path inside the node's instance directory.
ResolvePath(path) == <<"instance dir", path>>

\* Mutant of CreateConsensusEngine: the production engine is returned as
\* ruehash.New built it, without SetThreads(-1).
CreateConsensusEngine_NoSetThreads(config, cc) ==
  IF cc.Clique # NilPtr
    THEN [kind |-> "clique.New", config |-> cc.Clique, threads |-> 0]
  ELSE IF config.PowMode = "ModeFake"
    THEN [kind |-> "ruehash.NewFaker", config |-> NilPtr, threads |-> 0]
  ELSE IF config.PowMode = "ModeTest"
    THEN [kind |-> "ruehash.NewTester", config |-> NilPtr, threads |-> 0]
  ELSE IF config.PowMode = "ModeShared"
    THEN [kind |-> "ruehash.NewShared", config |-> NilPtr, threads |-> 0]
  ELSE [kind |-> "ruehash.New",
        config |-> <<[CacheDir |-> ResolvePath(config.CacheDir),
                      CachesInMem |-> config.CachesInMem,
                      CachesOnDisk |-> config.CachesOnDisk,
                      DatasetDir |-> config.DatasetDir,
                      DatasetsInMem |-> config.DatasetsInMem,
                      DatasetsOnDisk |-> config.DatasetsOnDisk]>>,
        threads |-> 0]

\* Mutant of CreateConsensusEngine: the fake mode is looked at before the
\* Clique sub-config.
CreateConsensusEngine_FakeFirst(config, cc) ==
  IF config.PowMode = "ModeFake"
    THEN [kind |-> "ruehash.NewFaker", config |-> NilPtr, threads |-> 0]
  ELSE IF cc.Clique # NilPtr
    THEN [kind |-> "clique.New", config |-> cc.Clique, threads |-> 0]
  ELSE IF config.PowMode = "ModeTest"
    THEN [kind |-> "ruehash.NewTester", config |-> NilPtr, threads |-> 0]
  ELSE IF config.PowMode = "ModeShared"
    THEN [kind |-> "ruehash.NewShared", config |-> NilPtr, threads |-> 0]
  ELSE [kind |-> "ruehash.New",
        config |-> <<[CacheDir |-> ResolvePath(config.CacheDir),
                      CachesInMem |-> config.CachesInMem,
                      CachesOnDisk |-> config.CachesOnDisk,
                      DatasetDir |-> config.DatasetDir,
                      DatasetsInMem |-> config.DatasetsInMem,
                      DatasetsOnDisk |-> config.DatasetsOnDisk]>>,
        threads |-> 0 - 1]

\* CreateConsensusEngine(ctx, config, chainConfig, db): the engine built, as the
\* constructor called, the configuration handed to it, and the thread count
\* set on it afterwards (0: SetThreads is not called).
CreateConsensusEngine(config, cc) ==
  IF cc.Clique # NilPtr
    THEN [kind |-> "clique.New", config |-> cc.Clique, threads |-> 0]
  ELSE IF config.PowMode = "ModeFake"
    THEN [kind |-> "ruehash.NewFaker", config |-> NilPtr, threads |-> 0]
  ELSE IF config.PowMode = "ModeTest"
    THEN [kind |-> "ruehash.NewTester", config |-> NilPtr, threads |-> 0]
  ELSE IF config.PowMode = "ModeShared"
    THEN [kind |-> "ruehash.NewShared", config |-> NilPtr, threads |-> 0]
  ELSE [kind |-> "ruehash.New",
        config |-> <<[CacheDir |-> ResolvePath(config.CacheDir),
                      CachesInMem |-> config.CachesInMem,
                      CachesOnDisk |-> config.CachesOnDisk,
                      DatasetDir |-> config.DatasetDir,
                      DatasetsInMem |-> config.DatasetsInMem,
                      DatasetsOnDisk |-> config.DatasetsOnDisk]>>,
        threads |-> 0 - 1]

\* ---- SpecEngine --------------------------------------------------------
CliqueConfigs == { [Period |-> per, Epoch |-> ep] : per \in {0, 1}, ep \in {1, 30000} }

InitEngine ==
  /\ chainConfig \in [Clique : {NilPtr} \cup { <<c>> : c \in CliqueConfigs },
                      Ethash : {NilPtr, <<"ethash">>}]
  /\ powConfig \in [PowMode : PowModes, CacheDir : {"ruehash"},
                    CachesInMem : 0 .. MaxCaches, CachesOnDisk : 0 .. MaxCaches,
                    DatasetDir : {"", ".ruehash"},
                    DatasetsInMem : 0 .. MaxCaches, DatasetsOnDisk : 0 .. MaxCaches]
  /\ engine = NilPtr
  /\ epc = "call"

CreateEngine ==
  /\ epc = "call"
  /\ engine' = CreateConsensusEngine(powConfig, chainConfig)
  /\ epc' = "done"
  /\ UNCHANGED <<chainConfig, powConfig>>
  /\ UNCHANGED <<accessorVars, compatVars, stopVars, baseVars,
                 startVars, miningVars, rulesVars, newVars>>

(***************************************************************************)
(* rue/backend.go: Rue.Stop.                                               *)
(***************************************************************************)
Stoppers == 1 .. NumStoppers

\* Mutant of StopSteps: the miner is stopped before the transaction pool.
StopSteps_MinerFirst(hasUpgrade, hasLes) ==
  (IF hasUpgrade THEN <<"stopDbUpgrade">> ELSE <<>>)
    \o <<"bloomIndexer.Close", "blockchain.Stop", "protocolManager.Stop">>
    \o (IF hasLes THEN <<"lesServer.Stop">> ELSE <<>>)
    \o <<"miner.Stop", "txPool.Stop", "eventMux.Stop", "chainDb.Close",
         "close(shutdownChan)">>

\* The statements of Stop, in program order, with the two guarded calls left
\* out when their guard is false.
StopSteps(hasUpgrade, hasLes) ==
  (IF hasUpgrade THEN <<"stopDbUpgrade">> ELSE <<>>)
    \o <<"bloomIndexer.Close", "blockchain.Stop", "protocolManager.Stop">>
    \o (IF hasLes THEN <<"lesServer.Stop">> ELSE <<>>)
    \o <<"txPool.Stop", "miner.Stop", "eventMux.Stop", "chainDb.Close",
         "close(shutdownChan)">>

\* Mutant of CloseChan: closing a closed channel is tolerated.
CloseChan_Tolerant(ch) ==
  IF ch = "closed" THEN [chan |-> "closed", panic |-> FALSE, closed |-> 0]
  ELSE [chan |-> "closed", panic |-> FALSE, closed |-> 1]

\* close(ch) on a Go channel: closes an open channel, panics on a closed one.
CloseChan(ch) ==
  IF ch = "closed" THEN [chan |-> "closed", panic |-> TRUE, closed |-> 0]
  ELSE [chan |-> "closed", panic |-> FALSE, closed |-> 1]

InitStop ==
  /\ stopDbUpgrade \in BOOLEAN
  /\ lesServer \in BOOLEAN
  /\ shutdownChan = "open"
  /\ closes = 0
  /\ stopPc = [p \in Stoppers |-> "idle"]
  /\ stopAt = [p \in Stoppers |-> 0]
  /\ stopTrace = [p \in Stoppers |-> <<>>]

\* A caller enters Stop.
StopCall(p) ==
  /\ stopPc[p] = "idle"
  /\ stopPc' = [stopPc EXCEPT ![p] = "run"]
  /\ stopAt' = [stopAt EXCEPT ![p] = 1]
  /\ UNCHANGED <<stopDbUpgrade, lesServer, shutdownChan, closes, stopTrace>>
  /\ UNCHANGED <<accessorVars, compatVars, engineVars, baseVars,
                 startVars, miningVars, rulesVars, newVars>>

\* The caller's next statement calls a collaborator, which starts its teardown.
StopStepCall(p) ==
  /\ stopPc[p] = "run"
  /\ stopAt[p] <= Len(StopSteps(stopDbUpgrade, lesServer))
  /\ StopSteps(stopDbUpgrade, lesServer)[stopAt[p]] # "close(shutdownChan)"
  /\ stopPc' = [stopPc EXCEPT ![p] = "incall"]
  /\ stopTrace' = [stopTrace EXCEPT
       ![p] = Append(@, <<"call", StopSteps(stopDbUpgrade, lesServer)[stopAt[p]]>>)]
  /\ UNCHANGED <<stopDbUpgrade, lesServer, shutdownChan, closes, stopAt>>
  /\ UNCHANGED <<accessorVars, compatVars, engineVars, baseVars,
                 startVars, miningVars, rulesVars, newVars>>

\* The collaborator's call returns; the caller moves to its next statement.
StopStepReturn(p) ==
  /\ stopPc[p] = "incall"
  /\ stopPc' = [stopPc EXCEPT ![p] = "run"]
  /\ stopAt' = [stopAt EXCEPT ![p] = @ + 1]
  /\ stopTrace' = [stopTrace EXCEPT
       ![p] = Append(@, <<"ret", StopSteps(stopDbUpgrade, lesServer)[stopAt[p]]>>)]
  /\ UNCHANGED <<stopDbUpgrade, lesServer, shutdownChan, closes>>
  /\ UNCHANGED <<accessorVars, compatVars, engineVars, baseVars,
                 startVars, miningVars, rulesVars, newVars>>

\* close(s.shutdownChan), then return nil; or the panic of a second close.
StopClose(p) ==
  /\ stopPc[p] = "run"
  /\ stopAt[p] <= Len(StopSteps(stopDbUpgrade, lesServer))
  /\ StopSteps(stopDbUpgrade, lesServer)[stopAt[p]] = "close(shutdownChan)"
  /\ LET r == CloseChan(shutdownChan) IN
       /\ shutdownChan' = r.chan
       /\ closes' = closes + r.closed
       /\ stopPc' = [stopPc EXCEPT ![p] = IF r.panic THEN "panicked" ELSE "returned"]
  /\ stopAt' = [stopAt EXCEPT ![p] = @ + 1]
  /\ stopTrace' = [stopTrace EXCEPT ![p] = Append(@, <<"call", "close(shutdownChan)">>)]
  /\ UNCHANGED <<stopDbUpgrade, lesServer>>
  /\ UNCHANGED <<accessorVars, compatVars, engineVars, baseVars,
                 startVars, miningVars, rulesVars, newVars>>

(***************************************************************************)
(* rue/backend.go: Rue.Ruebase and Rue.SetRuebase.                         *)
(***************************************************************************)
Callers == 1 .. NumCallers
Addrs == 1 .. NumAddrs

\* A common.Address is an array of bytes, copied piecewise: the model keeps
\* its two halves.  ZeroAddr is common.Address{}.
Addr(a) == <<a, a>>
ZeroAddr == Addr(0)

\* The account manager is a collaborator: what AccountManager().Wallets() holds
\* changes behind the node's back, so each query may find any wallet list.
\* A wallet holds no account or one account.
Wallets1 == {<<>>} \cup { <<a>> : a \in Addrs }
WalletLists == UNION { [1 .. n -> Wallets1] : n \in 0 .. MaxWallets }

\* The lookup of Ruebase, <<>> when it finds nothing:
\*   if wallets := s.AccountManager().Wallets(); len(wallets) > 0 {
\*     if accounts := wallets[0].Accounts(); len(accounts) > 0 { accounts[0].Address
LookupAccount(ws) ==
  IF Len(ws) > 0
    THEN (IF Len(ws[1]) > 0 THEN <<ws[1][1]>> ELSE <<>>)
    ELSE <<>>

\* What the properties keep of a wallet list: the accounts of the first wallet
\* (none when there is no wallet), and whether any wallet holds an account.
View(ws) ==
  [first |-> IF Len(ws) > 0 THEN ws[1] ELSE <<>>,
   managed |-> \E i \in 1 .. Len(ws) : Len(ws[i]) > 0]

NoSaw == <<>>
NoCall == [op |-> "", path |-> "", addr |-> ZeroAddr, err |-> FALSE,
           saw |-> NoSaw, expect |-> {}]

InitBeneficiary ==
  /\ ruebase \in {ZeroAddr} \cup { Addr(a) : a \in Addrs }
  /\ readers = {}
  /\ writer = 0
  /\ minerBase = ZeroAddr
  /\ pc = [p \in Callers |-> "idle"]
  /\ eb = [p \in Callers |-> ZeroAddr]
  /\ calls = 0
  /\ lastCall = NoCall
  /\ saw = [p \in Callers |-> NoSaw]
  /\ expect = [p \in Callers |-> {}]
  /\ lastSet = <<>>
  /\ resolved = {}

Goto(p, l) == pc' = [pc EXCEPT ![p] = l]

\* ---- Ruebase() ---------------------------------------------------------
\* A caller enters Ruebase: s.lock.RLock()
RbRLock(p) ==
  /\ pc[p] = "idle" /\ calls < MaxCalls
  /\ calls' = calls + 1
  /\ writer = 0
  /\ readers' = readers \cup {p}
  /\ expect' = [expect EXCEPT ![p] = resolved]
  /\ Goto(p, "rb_read")
  /\ UNCHANGED <<ruebase, writer, minerBase, eb, lastCall, saw,
                 lastSet, resolved>>
  /\ UNCHANGED <<accessorVars, compatVars, engineVars, stopVars,
                 startVars, miningVars, rulesVars, newVars>>

\* ruebase := s.ruebase
RbRead(p) ==
  /\ pc[p] = "rb_read"
  /\ eb' = [eb EXCEPT ![p] = ruebase]
  /\ Goto(p, "rb_runlock")
  /\ UNCHANGED <<ruebase, readers, writer, minerBase, calls,
                 lastCall, saw, expect, lastSet, resolved>>
  /\ UNCHANGED <<accessorVars, compatVars, engineVars, stopVars,
                 startVars, miningVars, rulesVars, newVars>>

\* s.lock.RUnlock()
RbRUnlock(p) ==
  /\ pc[p] = "rb_runlock"
  /\ readers' = readers \ {p}
  /\ Goto(p, "rb_check")
  /\ UNCHANGED <<ruebase, writer, minerBase, eb, calls, lastCall,
                 saw, expect, lastSet, resolved>>
  /\ UNCHANGED <<accessorVars, compatVars, engineVars, stopVars,
                 startVars, miningVars, rulesVars, newVars>>

\* The caller's call returns (addr, err) along path; its locals are dropped.
Return(p, op, path, addr, err, sawp) ==
  /\ lastCall' = [op |-> op, path |-> path, addr |-> addr, err |-> err,
              saw |-> sawp, expect |-> expect[p]]
  /\ eb' = [eb EXCEPT ![p] = ZeroAddr]
  /\ saw' = [saw EXCEPT ![p] = NoSaw]
  /\ expect' = [expect EXCEPT ![p] = {}]
  /\ Goto(p, "idle")

\* if ruebase != (common.Address{}) { return ruebase, nil }
RbReturnStored(p) ==
  /\ pc[p] = "rb_check"
  /\ eb[p] # ZeroAddr
  /\ Return(p, "Ruebase", "stored", eb[p], FALSE, NoSaw)
  /\ UNCHANGED <<ruebase, readers, writer, minerBase, calls,
                 lastSet, resolved>>
  /\ UNCHANGED <<accessorVars, compatVars, engineVars, stopVars,
                 startVars, miningVars, rulesVars, newVars>>

\* The account manager is asked, holds the wallets ws at this moment, and has a
\* first account: ruebase := its address.
RbResolve(p) ==
  /\ pc[p] = "rb_check"
  /\ eb[p] = ZeroAddr
  /\ \E ws \in WalletLists :
       /\ LookupAccount(ws) # <<>>
       /\ eb' = [eb EXCEPT ![p] = Addr(LookupAccount(ws)[1])]
       /\ saw' = [saw EXCEPT ![p] = <<View(ws)>>]
  /\ Goto(p, "rb_lock")
  /\ UNCHANGED <<ruebase, readers, writer, minerBase, calls,
                 lastCall, expect, lastSet, resolved>>
  /\ UNCHANGED <<accessorVars, compatVars, engineVars, stopVars,
                 startVars, miningVars, rulesVars, newVars>>

\* The account manager is asked, holds the wallets ws, and has no first account:
\* return common.Address{}, fmt.Errorf("ruebase must be explicitly specified")
RbFail(p) ==
  /\ pc[p] = "rb_check"
  /\ eb[p] = ZeroAddr
  /\ \E ws \in WalletLists :
       /\ LookupAccount(ws) = <<>>
       /\ Return(p, "Ruebase", "failed", ZeroAddr, TRUE, <<View(ws)>>)
  /\ UNCHANGED <<ruebase, readers, writer, minerBase, calls,
                 lastSet, resolved>>
  /\ UNCHANGED <<accessorVars, compatVars, engineVars, stopVars,
                 startVars, miningVars, rulesVars, newVars>>

\* Mutant of RbLock: the lock is taken shared, s.lock.RLock(), before the write.
RbLock_Shared(p) ==
  /\ pc[p] = "rb_lock"
  /\ writer = 0
  /\ readers' = readers \cup {p}
  /\ Goto(p, "rb_write")
  /\ UNCHANGED <<ruebase, writer, minerBase, eb, calls, lastCall,
                 saw, expect, lastSet, resolved>>
  /\ UNCHANGED <<accessorVars, compatVars, engineVars, stopVars,
                 startVars, miningVars, rulesVars, newVars>>

\* s.lock.Lock()
RbLock(p) ==
  /\ pc[p] = "rb_lock"
  /\ writer = 0 /\ readers = {}
  /\ writer' = p
  /\ Goto(p, "rb_write")
  /\ UNCHANGED <<ruebase, readers, minerBase, eb, calls, lastCall,
                 saw, expect, lastSet, resolved>>
  /\ UNCHANGED <<accessorVars, compatVars, engineVars, stopVars,
                 startVars, miningVars, rulesVars, newVars>>

\* s.ruebase = ruebase: the first half of the copy ...
RbWrite(p) ==
  /\ pc[p] = "rb_write"
  /\ ruebase' = <<eb[p][1], ruebase[2]>>
  /\ Goto(p, "rb_write2")
  /\ UNCHANGED <<readers, writer, minerBase, eb, calls, lastCall,
                 saw, expect, lastSet, resolved>>
  /\ UNCHANGED <<accessorVars, compatVars, engineVars, stopVars,
                 startVars, miningVars, rulesVars, newVars>>

\* ... and the second half.
RbWrite2(p) ==
  /\ pc[p] = "rb_write2"
  /\ ruebase' = <<ruebase[1], eb[p][2]>>
  /\ Goto(p, "rb_unlock")
  /\ UNCHANGED <<readers, writer, minerBase, eb, calls, lastCall,
                 saw, expect, lastSet, resolved>>
  /\ UNCHANGED <<accessorVars, compatVars, engineVars, stopVars,
                 startVars, miningVars, rulesVars, newVars>>

\* s.lock.Unlock(); return ruebase, nil
RbUnlock(p) ==
  /\ pc[p] = "rb_unlock"
  /\ writer' = 0
  /\ resolved' = resolved \cup {eb[p]}
  /\ Return(p, "Ruebase", "resolved", eb[p], FALSE, saw[p])
  /\ UNCHANGED <<ruebase, readers, minerBase, calls, lastSet>>
  /\ UNCHANGED <<accessorVars, compatVars, engineVars, stopVars,
                 startVars, miningVars, rulesVars, newVars>>

\* ---- SetRuebase(ruebase) -----------------------------------------------
\* A caller enters SetRuebase(a): self.lock.Lock()
SrLock(p, a) ==
  /\ pc[p] = "idle" /\ calls < MaxCalls
  /\ calls' = calls + 1
  /\ writer = 0 /\ readers = {}
  /\ writer' = p
  /\ eb' = [eb EXCEPT ![p] = Addr(a)]
  /\ expect' = [q \in Callers |-> {}]
  /\ resolved' = {}
  /\ Goto(p, "sr_write")
  /\ UNCHANGED <<ruebase, readers, minerBase, lastCall, saw,
                 lastSet>>
  /\ UNCHANGED <<accessorVars, compatVars, engineVars, stopVars,
                 startVars, miningVars, rulesVars, newVars>>

\* self.ruebase = ruebase: the first half of the copy ...
SrWrite(p) ==
  /\ pc[p] = "sr_write"
  /\ ruebase' = <<eb[p][1], ruebase[2]>>
  /\ Goto(p, "sr_write2")
  /\ UNCHANGED <<readers, writer, minerBase, eb, calls, lastCall,
                 saw, expect, lastSet, resolved>>
  /\ UNCHANGED <<accessorVars, compatVars, engineVars, stopVars,
                 startVars, miningVars, rulesVars, newVars>>

\* ... and the second half.
SrWrite2(p) ==
  /\ pc[p] = "sr_write2"
  /\ ruebase' = <<ruebase[1], eb[p][2]>>
  /\ lastSet' = <<eb[p]>>
  /\ Goto(p, "sr_unlock")
  /\ UNCHANGED <<readers, writer, minerBase, eb, calls, lastCall,
                 saw, expect, resolved>>
  /\ UNCHANGED <<accessorVars, compatVars, engineVars, stopVars,
                 startVars, miningVars, rulesVars, newVars>>

\* self.lock.Unlock()
SrUnlock(p) ==
  /\ pc[p] = "sr_unlock"
  /\ writer' = 0
  /\ Goto(p, "sr_miner")
  /\ UNCHANGED <<ruebase, readers, minerBase, eb, calls, lastCall,
                 saw, expect, lastSet, resolved>>
  /\ UNCHANGED <<accessorVars, compatVars, engineVars, stopVars,
                 startVars, miningVars, rulesVars, newVars>>

\* self.miner.SetRuebase(ruebase); return
SrMiner(p) ==
  /\ pc[p] = "sr_miner"
  /\ minerBase' = eb[p]
  /\ Return(p, "SetRuebase", "set", eb[p], FALSE, NoSaw)
  /\ UNCHANGED <<ruebase, readers, writer, calls, lastSet,
                 resolved>>
  /\ UNCHANGED <<accessorVars, compatVars, engineVars, stopVars,
                 startVars, miningVars, rulesVars, newVars>>

(***************************************************************************)
(* rue/backend.go: Rue.Start.                                              *)
(***************************************************************************)
\* Values of s.config.LightServ: light serving is enabled when it is positive.
LightServValues == {0 - 1, 0, 1, 90}

\* Go's integer division, which truncates toward zero.
GoDiv(a, b) == IF a >= 0 THEN a \div b ELSE 0 - ((0 - a) \div b)

\* Mutant of PeerCapacity: the light peers are reserved with no lower limit.
PeerCapacity_NoFloor(maxp, serv, lightp) ==
  IF serv > 0 THEN maxp - lightp ELSE maxp

\* The max peers count Start figures out from the server limits:
\*   maxPeers := srvr.MaxPeers
\*   if s.config.LightServ > 0 {
\*     maxPeers -= s.config.LightPeers
\*     if maxPeers < srvr.MaxPeers/2 { maxPeers = srvr.MaxPeers / 2 } }
PeerCapacity(maxp, serv, lightp) ==
  IF serv > 0
    THEN (IF maxp - lightp < GoDiv(maxp, 2) THEN GoDiv(maxp, 2) ELSE maxp - lightp)
    ELSE maxp

InitStart ==
  /\ srvrMaxPeers \in 0 .. MaxPeerCount
  /\ lightServ \in LightServValues
  /\ lightPeers \in 0 .. MaxPeerCount
  /\ startCalls = <<>>
  /\ startPc = "call"
  /\ stopDbUpgrade = FALSE
  /\ lesServer \in BOOLEAN
  /\ shutdownChan = "open"
  /\ closes = 0
  /\ stopPc = <<>>
  /\ stopAt = <<>>
  /\ stopTrace = <<>>

\* func (s *Rue) Start(srvr *p2p.Server) error
StartNode ==
  /\ startPc = "call"
  /\ startCalls' =
       <<<<"startBloomHandlers">>, <<"rueapi.NewPublicNetAPI">>,
         <<"protocolManager.Start", PeerCapacity(srvrMaxPeers, lightServ, lightPeers)>>>>
         \o (IF lesServer THEN <<<<"lesServer.Start">>>> ELSE <<>>)
  /\ startPc' = "done"
  /\ UNCHANGED <<srvrMaxPeers, lightServ, lightPeers>>
  /\ UNCHANGED <<accessorVars, compatVars, engineVars, stopVars,
                 baseVars, miningVars, rulesVars, newVars>>

(***************************************************************************)
(* rue/backend.go: Rue.StartMining and Rue.StopMining.                     *)
(***************************************************************************)
\* s.accountManager.Find(accounts.Account{Address: eb}): the index of the
\* first wallet that holds the account, 0 (a nil wallet and an error) if none.
FindWallet(ws, a) ==
  IF \E i \in 1 .. Len(ws) : \E k \in 1 .. Len(ws[i]) : Addr(ws[i][k]) = a
    THEN CHOOSE i \in 1 .. Len(ws) :
           /\ \E k \in 1 .. Len(ws[i]) : Addr(ws[i][k]) = a
           /\ \A j \in 1 .. (i - 1) : \A k \in 1 .. Len(ws[j]) : Addr(ws[j][k]) # a
    ELSE 0

\* The engines New may have stored in s.engine.
MiningEngines ==
  { CreateConsensusEngine([PowMode |-> "ModeNormal", CacheDir |-> "ruehash",
                           CachesInMem |-> 0, CachesOnDisk |-> 0, DatasetDir |-> "",
                           DatasetsInMem |-> 0, DatasetsOnDisk |-> 0],
                          [Clique |-> cl, Ethash |-> NilPtr]) :
      cl \in {NilPtr, <<[Period |-> 0, Epoch |-> 30000]>>} }

\* _, ok := s.engine.(*clique.Clique)
IsClique(e) == e.kind = "clique.New"

InitMining ==
  /\ amWallets \in WalletLists
  /\ signer = <<>>
  /\ acceptTxs \in {0, 1}
  /\ mining = FALSE
  /\ pendingStarts = <<>>
  /\ mpc = "idle"
  /\ mlocal = FALSE
  /\ meb = ZeroAddr
  /\ mresult = ""
  /\ mtrace = <<>>
  /\ mcalls = 0
  /\ ruebase \in {ZeroAddr} \cup { Addr(a) : a \in Addrs }
  /\ readers = {}
  /\ writer = 0
  /\ minerBase = ZeroAddr
  /\ pc = <<>>
  /\ eb = <<>>
  /\ calls = 0
  /\ lastCall = <<>>
  /\ saw = <<>>
  /\ expect = <<>>
  /\ lastSet = <<>>
  /\ resolved = {}
  /\ chainConfig = <<>>
  /\ powConfig = <<>>
  /\ engine \in MiningEngines
  /\ epc = "idle"

\* What StartMining leaves alone at every step but the ones that say otherwise.
MiningFrame ==
  /\ UNCHANGED <<amWallets, readers, writer, pc, eb, calls, lastCall, saw, expect,
                 lastSet, resolved>>
  /\ UNCHANGED <<accessorVars, compatVars, engineVars, stopVars,
                 startVars, rulesVars, newVars>>

\* func (s *Rue) StartMining(local bool) error is entered.
SmCall(local) ==
  /\ mpc = "idle"
  /\ mcalls < MaxMiningCalls
  /\ mcalls' = mcalls + 1
  /\ mlocal' = local
  /\ meb' = ZeroAddr
  /\ mresult' = ""
  /\ mtrace' = <<>>
  /\ mpc' = "ruebase"
  /\ UNCHANGED <<signer, acceptTxs, mining, pendingStarts, ruebase, minerBase>>
  /\ MiningFrame

\* eb, err := s.Ruebase() with err == nil: the stored beneficiary, or the one
\* Ruebase resolves from the account manager and stores.
SmRuebase ==
  /\ mpc = "ruebase"
  /\ writer = 0
  /\ ruebase # ZeroAddr \/ LookupAccount(amWallets) # <<>>
  /\ LET got == IF ruebase # ZeroAddr THEN ruebase
                ELSE Addr(LookupAccount(amWallets)[1]) IN
       /\ ruebase' = got
       /\ meb' = got
  /\ mtrace' = Append(mtrace, <<"s.Ruebase">>)
  /\ mpc' = "engine"
  /\ UNCHANGED <<signer, acceptTxs, mining, pendingStarts, minerBase, mlocal,
                 mresult, mcalls>>
  /\ MiningFrame

\* Mutant of SmRuebaseMissing: the error is logged and StartMining goes on.
SmRuebaseMissing_GoesOn ==
  /\ mpc = "ruebase"
  /\ writer = 0
  /\ ruebase = ZeroAddr /\ LookupAccount(amWallets) = <<>>
  /\ mtrace' = Append(mtrace, <<"s.Ruebase">>)
  /\ mpc' = "engine"
  /\ UNCHANGED <<signer, acceptTxs, mining, pendingStarts, ruebase, minerBase,
                 mlocal, meb, mresult, mcalls>>
  /\ MiningFrame

\* eb, err := s.Ruebase() with err != nil:
\*   return fmt.Errorf("ruebase missing: %v", err)
SmRuebaseMissing ==
  /\ mpc = "ruebase"
  /\ writer = 0
  /\ ruebase = ZeroAddr /\ LookupAccount(amWallets) = <<>>
  /\ mtrace' = Append(mtrace, <<"s.Ruebase">>)
  /\ mresult' = "ruebase missing"
  /\ mpc' = "idle"
  /\ UNCHANGED <<signer, acceptTxs, mining, pendingStarts, ruebase, minerBase,
                 mlocal, meb, mcalls>>
  /\ MiningFrame

\* The engine is not clique's: the if is skipped.
SmNotClique ==
  /\ mpc = "engine"
  /\ ~IsClique(engine)
  /\ mpc' = "local"
  /\ UNCHANGED <<signer, acceptTxs, mining, pendingStarts, ruebase, minerBase,
                 mlocal, meb, mresult, mtrace, mcalls>>
  /\ MiningFrame

\* wallet, err := s.accountManager.Find(...) finds the wallet:
\*   clique.Authorize(eb, wallet.SignHash)
SmAuthorize ==
  /\ mpc = "engine"
  /\ IsClique(engine)
  /\ FindWallet(amWallets, meb) # 0
  /\ signer' = <<[signer |-> meb, signFn |-> FindWallet(amWallets, meb)]>>
  /\ mtrace' = mtrace \o <<<<"accountManager.Find", meb>>, <<"clique.Authorize", meb>>>>
  /\ mpc' = "local"
  /\ UNCHANGED <<acceptTxs, mining, pendingStarts, ruebase, minerBase, mlocal,
                 meb, mresult, mcalls>>
  /\ MiningFrame

\* Mutant of SmSignerMissing: the missing signer does not end the call.
SmSignerMissing_GoesOn ==
  /\ mpc = "engine"
  /\ IsClique(engine)
  /\ FindWallet(amWallets, meb) = 0
  /\ mtrace' = Append(mtrace, <<"accountManager.Find", meb>>)
  /\ mpc' = "local"
  /\ UNCHANGED <<signer, acceptTxs, mining, pendingStarts, ruebase, minerBase,
                 mlocal, meb, mresult, mcalls>>
  /\ MiningFrame

\* wallet == nil || err != nil: return fmt.Errorf("signer missing: %v", err)
SmSignerMissing ==
  /\ mpc = "engine"
  /\ IsClique(engine)
  /\ FindWallet(amWallets, meb) = 0
  /\ mtrace' = Append(mtrace, <<"accountManager.Find", meb>>)
  /\ mresult' = "signer missing"
  /\ mpc' = "idle"
  /\ UNCHANGED <<signer, acceptTxs, mining, pendingStarts, ruebase, minerBase,
                 mlocal, meb, mcalls>>
  /\ MiningFrame

\* Mutant of SmLocal: the flag is stored whatever local is.
SmLocal_Always ==
  /\ mpc = "local"
  /\ acceptTxs' = 1
  /\ mtrace' = Append(mtrace, <<"atomic.StoreUint32", 1>>)
  /\ mpc' = "go"
  /\ UNCHANGED <<signer, mining, pendingStarts, ruebase, minerBase, mlocal, meb,
                 mresult, mcalls>>
  /\ MiningFrame

\* if local { atomic.StoreUint32(&s.protocolManager.acceptTxs, 1) }
SmLocal ==
  /\ mpc = "local"
  /\ acceptTxs' = IF mlocal THEN 1 ELSE acceptTxs
  /\ mtrace' = IF mlocal THEN Append(mtrace, <<"atomic.StoreUint32", 1>>) ELSE mtrace
  /\ mpc' = "go"
  /\ UNCHANGED <<signer, mining, pendingStarts, ruebase, minerBase, mlocal, meb,
                 mresult, mcalls>>
  /\ MiningFrame

\* go s.miner.Start(eb); return nil
SmGo ==
  /\ mpc = "go"
  /\ pendingStarts' = Append(pendingStarts, meb)
  /\ mtrace' = Append(mtrace, <<"go s.miner.Start", meb>>)
  /\ mresult' = "nil"
  /\ mpc' = "idle"
  /\ UNCHANGED <<signer, acceptTxs, mining, ruebase, minerBase, mlocal, meb, mcalls>>
  /\ MiningFrame

\* One of the goroutines `go s.miner.Start(eb)` runs: the miner takes the
\* beneficiary and mines.
MinerStart(i) ==
  /\ i \in 1 .. Len(pendingStarts)
  /\ mining' = TRUE
  /\ minerBase' = pendingStarts[i]
  /\ pendingStarts' = SubSeq(pendingStarts, 1, i - 1)
                        \o SubSeq(pendingStarts, i + 1, Len(pendingStarts))
  /\ UNCHANGED <<signer, acceptTxs, ruebase, mpc, mlocal, meb, mresult, mtrace, mcalls>>
  /\ MiningFrame

\* func (s *Rue) StopMining() { s.miner.Stop() }
StopMining ==
  /\ mpc = "idle"
  /\ mcalls < MaxMiningCalls
  /\ mcalls' = mcalls + 1
  /\ mining' = FALSE
  /\ mtrace' = Append(mtrace, <<"s.miner.Stop">>)
  /\ UNCHANGED <<signer, acceptTxs, pendingStarts, ruebase, minerBase, mpc, mlocal,
                 meb, mresult>>
  /\ MiningFrame

(***************************************************************************)
(* rue/backend.go: New.                                                    *)
(***************************************************************************)
\* What core.GetBlockChainVersion may return: 0, core.BlockChainVersion or
\* another version.
BcVersions == {"0", "core.BlockChainVersion", "another"}

\* What core.SetupGenesisBlock returns as its error: nil, a
\* *params.ConfigCompatError with its RewindTo, or another error.
GenesisErrs ==
  {[kind |-> "nil", RewindTo |-> 0], [kind |-> "other", RewindTo |-> 0]}
    \cup { [kind |-> "ConfigCompatError", RewindTo |-> r] : r \in Heights }

InitNew ==
  /\ newInput \in
       [SyncMode : {"FullSync", "FastSync", "LightSync", "invalid"},
        createDBErr : BOOLEAN,
        genesisErr : GenesisErrs,
        SkipBcVersionCheck : BOOLEAN,
        bcVersion : BcVersions,
        newBlockChainErr : BOOLEAN,
        Journal : {"", "transactions.rlp"},
        newProtocolManagerErr : BOOLEAN]
  /\ newPc = "sync mode"
  /\ newTrace = <<>>
  /\ newResult = ""

NewFrame ==
  /\ UNCHANGED newInput
  /\ UNCHANGED <<accessorVars, compatVars, engineVars, stopVars,
                 baseVars, startVars, miningVars, rulesVars>>

\* New returns nil and the error.
NewFails(err, cs) ==
  /\ newTrace' = newTrace \o cs
  /\ newResult' = err
  /\ newPc' = "returned"

\* New goes on to the statement at l.
NewGoes(l, cs) ==
  /\ newTrace' = newTrace \o cs
  /\ newPc' = l
  /\ UNCHANGED newResult

\* The two checks of config.SyncMode, CreateDB and upgradeDeduplicateData.
NewCreateDB ==
  /\ newPc = "sync mode"
  /\ IF newInput.SyncMode = "LightSync"
       THEN NewFails("can't run rue.Rue in light sync mode", <<>>)
     ELSE IF newInput.SyncMode = "invalid"
       THEN NewFails("invalid sync mode", <<>>)
     ELSE IF newInput.createDBErr
       THEN NewFails("CreateDB error", <<<<"CreateDB">>>>)
     ELSE NewGoes("genesis", <<<<"CreateDB">>, <<"upgradeDeduplicateData">>>>)
  /\ NewFrame

\* chainConfig, genesisHash, genesisErr := core.SetupGenesisBlock(...)
\* if _, ok := genesisErr.(*params.ConfigCompatError); genesisErr != nil && !ok
NewSetupGenesis ==
  /\ newPc = "genesis"
  /\ IF newInput.genesisErr.kind # "nil"
          /\ newInput.genesisErr.kind # "ConfigCompatError"
       THEN NewFails("genesisErr", <<<<"core.SetupGenesisBlock">>>>)
       ELSE NewGoes("rue", <<<<"core.SetupGenesisBlock">>>>)
  /\ NewFrame

\* rue := &Rue{...} and the check of the database version.
NewRue ==
  /\ newPc = "rue"
  /\ LET made == <<<<"CreateConsensusEngine">>, <<"NewBloomIndexer">>>> IN
       IF newInput.SkipBcVersionCheck
         THEN NewGoes("blockchain", made)
       ELSE IF newInput.bcVersion # "core.BlockChainVersion" /\ newInput.bcVersion # "0"
         THEN NewFails("Blockchain DB version mismatch",
                       made \o <<<<"core.GetBlockChainVersion">>>>)
       ELSE NewGoes("blockchain",
                    made \o <<<<"core.GetBlockChainVersion">>,
                               <<"core.WriteBlockChainVersion">>>>)
  /\ NewFrame

\* rue.blockchain, err = core.NewBlockChain(...)
NewBlockChain ==
  /\ newPc = "blockchain"
  /\ IF newInput.newBlockChainErr
       THEN NewFails("NewBlockChain error", <<<<"core.NewBlockChain">>>>)
       ELSE NewGoes("rewind", <<<<"core.NewBlockChain">>>>)
  /\ NewFrame

\* Mutant of NewRewind: the head is set after the schedule is written, and
\* to the block after RewindTo.
NewRewind_WriteFirst ==
  /\ newPc = "rewind"
  /\ IF newInput.genesisErr.kind = "ConfigCompatError"
       THEN NewGoes("bloom",
                    <<<<"core.WriteChainConfig">>,
                      <<"rue.blockchain.SetHead", newInput.genesisErr.RewindTo + 1>>>>)
       ELSE NewGoes("bloom", <<>>)
  /\ NewFrame

\* if compat, ok := genesisErr.(*params.ConfigCompatError); ok {
\*   rue.blockchain.SetHead(compat.RewindTo)
\*   core.WriteChainConfig(chainDb, genesisHash, chainConfig) }
NewRewind ==
  /\ newPc = "rewind"
  /\ IF newInput.genesisErr.kind = "ConfigCompatError"
       THEN NewGoes("bloom",
                    <<<<"rue.blockchain.SetHead", newInput.genesisErr.RewindTo>>,
                      <<"core.WriteChainConfig">>>>)
       ELSE NewGoes("bloom", <<>>)
  /\ NewFrame

\* rue.bloomIndexer.Start(rue.blockchain)
NewBloomStart ==
  /\ newPc = "bloom"
  /\ NewGoes("txpool", <<<<"rue.bloomIndexer.Start">>>>)
  /\ NewFrame

\* rue.txPool = core.NewTxPool(...), the journal's path resolved before.
NewTxPool ==
  /\ newPc = "txpool"
  /\ NewGoes("protocol manager",
              (IF newInput.Journal # ""
                 THEN <<<<"ctx.ResolvePath", newInput.Journal>>>> ELSE <<>>)
                \o <<<<"core.NewTxPool">>>>)
  /\ NewFrame

\* rue.protocolManager, err = NewProtocolManager(...)
NewProtocolManager ==
  /\ newPc = "protocol manager"
  /\ IF newInput.newProtocolManagerErr
       THEN NewFails("NewProtocolManager error", <<<<"NewProtocolManager">>>>)
       ELSE NewGoes("miner", <<<<"NewProtocolManager">>>>)
  /\ NewFrame

\* rue.miner = miner.New(...) and the rest of New: return rue, nil
NewMiner ==
  /\ newPc = "miner"
  /\ newTrace' = newTrace \o <<<<"miner.New">>, <<"rue.miner.SetExtra">>,
                                <<"gasprice.NewOracle">>>>
  /\ newResult' = "nil"
  /\ newPc' = "returned"
  /\ NewFrame

(***************************************************************************)
(* Idle values: what a specification gives the variables it does not use.  *)
(***************************************************************************)
IdleConfig == <<>>

IdleAccessor ==
  /\ cfg = IdleConfig
  /\ num = 0
  /\ active = NoAnswers
  /\ apc = "idle"

IdleCompat ==
  /\ stored = IdleConfig
  /\ newcfg = IdleConfig
  /\ height = 0
  /\ bhead = Nil
  /\ lasterr = NilErr
  /\ iters = 0
  /\ cpc = "idle"

IdleEngine ==
  /\ chainConfig = IdleConfig
  /\ powConfig = IdleConfig
  /\ engine = NilPtr
  /\ epc = "idle"

IdleStop ==
  /\ stopDbUpgrade = FALSE
  /\ lesServer = FALSE
  /\ shutdownChan = "open"
  /\ closes = 0
  /\ stopPc = <<>>
  /\ stopAt = <<>>
  /\ stopTrace = <<>>

IdleBeneficiary ==
  /\ ruebase = ZeroAddr
  /\ readers = {}
  /\ writer = 0
  /\ minerBase = ZeroAddr
  /\ pc = <<>>
  /\ eb = <<>>
  /\ calls = 0
  /\ lastCall = <<>>
  /\ saw = <<>>
  /\ expect = <<>>
  /\ lastSet = <<>>
  /\ resolved = {}

IdleStart ==
  /\ srvrMaxPeers = 0
  /\ lightServ = 0
  /\ lightPeers = 0
  /\ startCalls = <<>>
  /\ startPc = "idle"

IdleMining ==
  /\ amWallets = <<>>
  /\ signer = <<>>
  /\ acceptTxs = 0
  /\ mining = FALSE
  /\ pendingStarts = <<>>
  /\ mpc = "off"
  /\ mlocal = FALSE
  /\ meb = <<>>
  /\ mresult = ""
  /\ mtrace = <<>>
  /\ mcalls = 0

IdleRules ==
  /\ rcfg = IdleConfig
  /\ rnum = Nil
  /\ heap = <<>>
  /\ rules = <<>>

IdleNew ==
  /\ newInput = <<>>
  /\ newPc = "idle"
  /\ newTrace = <<>>
  /\ newResult = ""

(***************************************************************************)
(* Specifications.                                                         *)
(***************************************************************************)
InitA == InitAccessor /\ IdleCompat /\ IdleEngine /\ IdleStop /\ IdleBeneficiary /\ IdleStart /\ IdleMining /\ IdleRules /\ IdleNew
NextAccessor == EvalAccessors
SpecAccessor == InitA /\ [][NextAccessor]_vars

InitC == InitCompat /\ IdleAccessor /\ IdleEngine /\ IdleStop /\ IdleBeneficiary /\ IdleStart /\ IdleMining /\ IdleRules /\ IdleNew
NextCompat == CompatEnter \/ CompatIterate \/ CompatBreak
SpecCompat == InitC /\ [][NextCompat]_vars

\* A call of CheckCompatible that has begun goes on running.
InitL ==
  InitCompatLoop /\ IdleAccessor /\ IdleEngine /\ IdleStop /\ IdleBeneficiary
    /\ IdleStart /\ IdleMining /\ IdleRules /\ IdleNew
SpecCompatFair == InitL /\ [][NextCompat]_vars /\ WF_vars(NextCompat)

InitE == InitEngine /\ IdleAccessor /\ IdleCompat /\ IdleStop /\ IdleBeneficiary /\ IdleStart /\ IdleMining /\ IdleRules /\ IdleNew
NextEngine == CreateEngine
SpecEngine == InitE /\ [][NextEngine]_vars

InitS == InitStop /\ IdleAccessor /\ IdleCompat /\ IdleEngine /\ IdleBeneficiary /\ IdleStart /\ IdleMining /\ IdleRules /\ IdleNew
NextStop ==
  \E p \in Stoppers :
    StopCall(p) \/ StopStepCall(p) \/ StopStepReturn(p) \/ StopClose(p)
SpecStop == InitS /\ [][NextStop]_vars

InitB == InitBeneficiary /\ IdleAccessor /\ IdleCompat /\ IdleEngine /\ IdleStop /\ IdleStart /\ IdleMining /\ IdleRules /\ IdleNew
NextBeneficiary ==
  \/ \E p \in Callers :
       \/ RbRLock(p) \/ RbRead(p) \/ RbRUnlock(p)
       \/ RbReturnStored(p) \/ RbResolve(p) \/ RbFail(p)
       \/ RbLock(p) \/ RbWrite(p) \/ RbWrite2(p) \/ RbUnlock(p)
       \/ \E a \in {0} \cup Addrs : SrLock(p, a)
       \/ SrWrite(p) \/ SrWrite2(p) \/ SrUnlock(p) \/ SrMiner(p)
SpecBeneficiary == InitB /\ [][NextBeneficiary]_vars

InitT == InitStart /\ IdleAccessor /\ IdleCompat /\ IdleEngine /\ IdleBeneficiary /\ IdleMining /\ IdleRules /\ IdleNew
NextStart == StartNode
SpecStart == InitT /\ [][NextStart]_vars

InitM == InitMining /\ IdleAccessor /\ IdleCompat /\ IdleStop /\ IdleStart /\ IdleRules /\ IdleNew
NextMining ==
  \/ \E local \in BOOLEAN : SmCall(local)
  \/ SmRuebase \/ SmRuebaseMissing
  \/ SmNotClique \/ SmAuthorize \/ SmSignerMissing
  \/ SmLocal \/ SmGo
  \/ \E i \in 1 .. MaxMiningCalls : MinerStart(i)
  \/ StopMining
SpecMining == InitM /\ [][NextMining]_vars

\* StartMining and StopMining beside one call of SetRuebase, which holds s.lock
\* while it writes.
InitAcceptTxs ==
  /\ InitBeneficiary
  /\ ruebase = ZeroAddr
  /\ amWallets \in {<<>>, <<<<1>>>>}
  /\ signer = <<>>
  /\ acceptTxs \in {0, 1}
  /\ mining = FALSE
  /\ pendingStarts = <<>>
  /\ mpc = "idle"
  /\ mlocal = FALSE
  /\ meb = ZeroAddr
  /\ mresult = ""
  /\ mtrace = <<>>
  /\ mcalls = 0
  /\ chainConfig = <<>>
  /\ powConfig = <<>>
  /\ engine \in MiningEngines
  /\ epc = "idle"

\* A StartMining call that is running goes on, and a goroutine that was
\* started gets to run; nobody has to call StartMining or StopMining.
MiningSteps ==
  \/ SmRuebase \/ SmRuebaseMissing
  \/ SmNotClique \/ SmAuthorize \/ SmSignerMissing
  \/ SmLocal \/ SmGo
SpecMiningFair ==
  /\ InitM /\ [][NextMining]_vars
  /\ WF_vars(MiningSteps)
  /\ WF_vars(\E i \in 1 .. MaxMiningCalls : MinerStart(i))

InitF == InitAcceptTxs /\ IdleAccessor /\ IdleCompat /\ IdleStop /\ IdleStart /\ IdleRules /\ IdleNew
NextSetRuebase ==
  \E p \in Callers :
    \/ calls = 0 /\ \E a \in {0} \cup Addrs : SrLock(p, a)
    \/ SrWrite(p) \/ SrWrite2(p) \/ SrUnlock(p) \/ SrMiner(p)
SpecAcceptTxs == InitF /\ [][NextMining \/ NextSetRuebase]_vars

InitN ==
  InitNew /\ IdleAccessor /\ IdleCompat /\ IdleEngine /\ IdleStop
    /\ IdleBeneficiary /\ IdleStart /\ IdleMining /\ IdleRules
NextNew ==
  \/ NewCreateDB \/ NewSetupGenesis \/ NewRue \/ NewBlockChain \/ NewRewind
  \/ NewBloomStart \/ NewTxPool \/ NewProtocolManager \/ NewMiner
SpecNew == InitN /\ [][NextNew]_vars

InitR ==
  InitRules /\ IdleAccessor /\ IdleCompat /\ IdleEngine /\ IdleStop
    /\ IdleBeneficiary /\ IdleStart /\ IdleMining /\ IdleNew
NextRules ==
  \/ RulesCall
  \/ \E i \in 1 .. MaxRulesCalls, v \in BigIntValues : SnapshotSetChainId(i, v)
SpecRules == InitR /\ [][NextRules]_vars

(***************************************************************************)
(* Properties.                                                             *)
(***************************************************************************)
\* For each accessor Is<name>, the field that holds the height of fork <name>.
OwnBlock ==
  [Frontier |-> "FrontierBlock", Horizon |-> "HorizonBlock", Hope |-> "HopeBlock",
   Settlement |-> "SettlementBlock", Byzantium |-> "ByzantiumBlock",
   Dunedin |-> "DunedinBlock", Berlin |-> "BerlinBlock", Peking |-> "PekingBlock",
   Rennisance |-> "RennisanceBlock", Edinburgh |-> "EdinburghBlock",
   Kitchener |-> "KitchenerBlock", Waterloo |-> "WaterlooBlock",
   Kyoto |-> "KyotoBlock", Instanbul |-> "InstanbulBlock", Nova |-> "NovaBlock",
   Sol |-> "SolBlock", ChenXing |-> "ChenXingBlock", Taihakusei |-> "TaihakuseiBlock",
   SaoHao |-> "SaoHaoBlock", Jupiter |-> "JupiterBlock", Pluto |-> "PlutoBlock",
   MilkyWay |-> "MilkyWayBlock", Andromeda |-> "AndromedaBlock",
   Hoags |-> "HoagsBlock", Mayalls |-> "MayallsBlock", Thales |-> "ThalesBlock",
   Pythagoras |-> "PythagorasBlock", Parmenides |-> "ParmenidesBlock",
   Zeno |-> "ZenoBlock", Socrates |-> "SocratesBlock", Plato |-> "PlatoBlock",
   Cicero |-> "CiceroBlock", Aquinas |-> "AquinasBlock",
   Descartes |-> "DescartesBlock", Hobbes |-> "HobbesBlock",
   Spinoza |-> "SpinozaBlock", Locke |-> "LockeBlock", Newton |-> "NewtonBlock",
   Leibniz |-> "LeibnizBlock", Voltaire |-> "VoltaireBlock", Hume |-> "HumeBlock",
   Rousseau |-> "RousseauBlock", Smith |-> "SmithBlock", Kant |-> "KantBlock",
   Buterin |-> "ButerinBlock", DAOFork |-> "DAOForkBlock", EIP150 |-> "EIP150Block",
   EIP155 |-> "EIP155Block", EIP158 |-> "EIP158Block"]

\* C2: every accessor Is<name>(num) returns true iff fork <name>'s own
\* scheduled height is non-nil and num is at or above it.
C2_AccessorReadsOwnHeight ==
  apc = "done" =>
    \A a \in AccessorNames :
      active[a] <=> (cfg[OwnBlock[a]] # Nil /\ num >= cfg[OwnBlock[a]])

\* ---- CheckCompatible ---------------------------------------------------
BlockSet == { CompatBlocks[i] : i \in 1 .. Len(CompatBlocks) }

\* Fork f's height differs between the two schedules and the fork is active
\* at head h under at least one of them.
HeightConflict(f, h) ==
  /\ stored[f] # newcfg[f]
  /\ \/ (stored[f] # Nil /\ stored[f] <= h)
     \/ (newcfg[f] # Nil /\ newcfg[f] <= h)

\* The DAO support flags differ while the stored DAO fork is active at h.
SupportConflict(h) ==
  /\ stored.DAOForkBlock # Nil /\ stored.DAOForkBlock <= h
  /\ stored.DAOForkSupport # newcfg.DAOForkSupport

\* The chain ids differ while the stored EIP158 fork is active at h.
ChainIdConflict(h) ==
  /\ stored.EIP158Block # Nil /\ stored.EIP158Block <= h
  /\ stored.ChainId # newcfg.ChainId

\* Fork f is the only boundary in conflict at the head height of the call, and
\* both schedules define its height.
OnlyDefinedConflict(f) ==
  /\ stored[f] # Nil /\ newcfg[f] # Nil
  /\ HeightConflict(f, height)
  /\ \A g \in BlockSet \ {f} : ~HeightConflict(g, height)
  /\ ~SupportConflict(height)
  /\ ~ChainIdConflict(height)

\* C3 as stated: with fork f the only conflict and both heights defined, the
\* error's RewindTo is min(stored, candidate) - 1.
C3_RewindIsMinMinusOne ==
  cpc = "done" =>
    \A f \in BlockSet :
      OnlyDefinedConflict(f) =>
        /\ lasterr # NilErr
        /\ lasterr.RewindTo = Min(stored[f], newcfg[f]) - 1

\* C3 amended: RewindTo is min(stored, candidate) - 1 when that minimum is
\* above 0, and 0 when the minimum is 0.
C3_RewindIsMinMinusOneOrZero ==
  cpc = "done" =>
    \A f \in BlockSet :
      OnlyDefinedConflict(f) =>
        /\ lasterr # NilErr
        /\ lasterr.RewindTo =
             (IF Min(stored[f], newcfg[f]) > 0
                THEN Min(stored[f], newcfg[f]) - 1 ELSE 0)

\* The spec's example scaled down: stored 1, candidate 2, head 1, rewind to 0.
C3_Witness ==
  /\ cpc = "done"
  /\ OnlyDefinedConflict("HomesteadBlock")
  /\ stored.HomesteadBlock = 1 /\ newcfg.HomesteadBlock = 2 /\ height = 1
  /\ lasterr.RewindTo = 0

\* C4: a candidate with the same heights, support flag and chain id as the
\* stored schedule yields no error, at any head height.
C4_IdenticalSchedulesCompatible ==
  (cpc = "done" /\ newcfg = stored) => lasterr = NilErr

C4_Witness ==
  /\ cpc = "done" /\ newcfg = stored
  /\ height = MaxHeight
  /\ stored.HomesteadBlock = 0 /\ stored.EIP158Block = 1
  /\ stored.ByzantiumBlock = Nil /\ stored.ChainId = Nil
  /\ lasterr = NilErr

\* ---- Ruebase / SetRuebase ----------------------------------------------
\* Some caller is inside SetRuebase.
SetInProgress ==
  \E p \in Callers : pc[p] \in {"sr_write", "sr_write2", "sr_unlock", "sr_miner"}

\* C1: once SetRuebase(X), X non-zero, has returned and no other SetRuebase
\* has taken effect since or is running, the stored beneficiary is X (first
\* conjunct) and a Ruebase call returns X (second conjunct); the field is
\* looked at while nobody is writing it.
C1_ExplicitSetOverrides ==
  (lastSet # <<>> /\ lastSet[1] # ZeroAddr /\ ~SetInProgress /\ writer = 0) =>
    /\ ruebase = lastSet[1]
    /\ \A p \in Callers : pc[p] = "rb_runlock" => eb[p] = lastSet[1]

\* C7: a Ruebase call that found no stored beneficiary fails exactly
\* when the account manager holds no account at all, and returns the address
\* of an account otherwise; a failing call leaves the stored beneficiary alone.
C7_FailsIffNoAccountManaged ==
  /\ [](lastCall.op = "Ruebase" /\ lastCall.path # "stored" =>
          /\ lastCall.err <=> ~lastCall.saw[1].managed
          /\ ~lastCall.err => lastCall.addr[1] \in Addrs)
  /\ [][\A p \in Callers :
          (pc[p] = "rb_check" /\ pc'[p] = "idle" /\ lastCall'.err) =>
            ruebase' = ruebase]_vars

\* C8: a Ruebase call that finds a stored beneficiary returns it and does not
\* ask the account manager; and a call that began after lazily resolving
\* calls had returned, with no SetRuebase since, returns what they returned
\* and takes the stored path.
C8_ResolvedBeneficiaryIsKept ==
  lastCall.op = "Ruebase" =>
    /\ lastCall.path = "stored" => (lastCall.saw = NoSaw /\ ~lastCall.err)
    /\ \A a \in lastCall.expect : lastCall.addr = a /\ lastCall.path = "stored"

\* C9: s.ruebase is read with the lock held, written with the lock held
\* exclusively, no reader overlaps a writer, no caller ever reads a half
\* written address, a caller that is about to take the lock does not hold it,
\* and the lock is not held across the calls to the account manager and the
\* miner.
Holds(p) == p \in readers \/ writer = p

C9_LockDiscipline ==
  /\ \A p \in Callers : pc[p] = "rb_read" => Holds(p)
  /\ \A p \in Callers :
       pc[p] \in {"rb_write", "rb_write2", "sr_write", "sr_write2"} => writer = p
  /\ writer # 0 => readers = {}
  /\ ruebase[1] # ruebase[2] => writer # 0
  /\ \A p \in Callers : eb[p][1] = eb[p][2]
  /\ \A p \in Callers : pc[p] \in {"idle", "rb_lock"} => ~Holds(p)
  /\ \A p \in Callers : pc[p] \in {"rb_check", "sr_miner"} => ~Holds(p)

\* A write is half done while another caller waits to store what it resolved.
C9_Witness ==
  /\ writer # 0 /\ ruebase[1] # ruebase[2]
  /\ \E q \in Callers : pc[q] = "rb_lock"

\* ---- Stop --------------------------------------------------------------
\* The teardown order of the claim.
TeardownOrder ==
  <<"stopDbUpgrade", "bloomIndexer.Close", "blockchain.Stop", "protocolManager.Stop",
    "lesServer.Stop", "txPool.Stop", "miner.Stop", "eventMux.Stop", "chainDb.Close",
    "close(shutdownChan)">>

Applies(step) ==
  /\ step = "stopDbUpgrade" => stopDbUpgrade
  /\ step = "lesServer.Stop" => lesServer

\* The events of one Stop call in that order: each step is called, and returns
\* before the next is called; closing the channel is the last event.
RECURSIVE Events(_)
Events(steps) ==
  IF steps = <<>> THEN <<>>
  ELSE IF Head(steps) = "close(shutdownChan)" THEN <<<<"call", Head(steps)>>>>
  ELSE <<<<"call", Head(steps)>>, <<"ret", Head(steps)>>>> \o Events(Tail(steps))

IsPrefix(s, t) == Len(s) <= Len(t) /\ s = SubSeq(t, 1, Len(s))

\* C5: what a Stop call has done so far is a prefix of the teardown order, and
\* all of it once the call has closed the channel.
C5_StopOrder ==
  \A p \in Stoppers :
    LET want == Events(SelectSeq(TeardownOrder, Applies)) IN
      /\ IsPrefix(stopTrace[p], want)
      /\ stopPc[p] \in {"returned", "panicked"} => stopTrace[p] = want

C5_Witness ==
  \E p \in Stoppers :
    /\ stopPc[p] = "returned" /\ stopDbUpgrade /\ lesServer
    /\ Len(stopTrace[p]) = 19

\* C6: the channel is closed at most once; the Stop call that closes it
\* returns, and every other Stop call that gets there panics.
C6_ShutdownSignalledOnce ==
  /\ closes <= 1
  /\ Cardinality({ p \in Stoppers : stopPc[p] = "returned" }) = closes
  /\ (closes = 1) <=> (shutdownChan = "closed")
  /\ \A p \in Stoppers :
       stopPc[p] = "panicked" => \E q \in Stoppers \ {p} : stopPc[q] = "returned"

C6_Witness ==
  \E p, q \in Stoppers : stopPc[p] = "returned" /\ stopPc[q] = "panicked"

\* ---- CreateConsensusEngine ----------------------------------------------
\* C10: with a Clique sub-config the engine is clique's, built from that
\* sub-config, whatever the PowMode and the Ethash sub-config.
C10_CliqueWins ==
  (epc = "done" /\ chainConfig.Clique # NilPtr) =>
    /\ engine.kind = "clique.New"
    /\ engine.config = chainConfig.Clique

C10_Witness ==
  /\ epc = "done" /\ chainConfig.Clique # NilPtr
  /\ powConfig.PowMode = "ModeFake" /\ chainConfig.Ethash # NilPtr
  /\ engine.kind = "clique.New"

\* ---- Start -------------------------------------------------------------
\* The capacity Start handed to the protocol manager.
HandedCapacity == startCalls[3][2]

Max(a, b) == IF a >= b THEN a ELSE b

\* C11: the capacity handed to the protocol manager is MaxPeers when light
\* serving is disabled and max(MaxPeers - LightPeers, MaxPeers / 2) when it is
\* enabled, and then at least half of MaxPeers.
C11_PeerCapacity ==
  startPc = "done" =>
    /\ startCalls[3][1] = "protocolManager.Start"
    /\ lightServ <= 0 => HandedCapacity = srvrMaxPeers
    /\ lightServ > 0 =>
         /\ HandedCapacity = Max(srvrMaxPeers - lightPeers, srvrMaxPeers \div 2)
         /\ 2 * HandedCapacity >= srvrMaxPeers - 1
         /\ HandedCapacity >= srvrMaxPeers \div 2

\* Light serving is enabled and the light peers would take more than half.
C11_Witness ==
  /\ startPc = "done" /\ lightServ > 0
  /\ srvrMaxPeers = 5 /\ lightPeers = 4
  /\ HandedCapacity = 2

\* ---- StartMining -------------------------------------------------------
\* The last StartMining call has returned an error.
StartMiningFailed == mpc = "idle" /\ mresult \in {"ruebase missing", "signer missing"}

\* The names of the calls the current or last StartMining call made.
Made == { mtrace[i][1] : i \in 1 .. Len(mtrace) }

\* C12: StartMining returns 'ruebase missing' when no beneficiary is stored and
\* the account manager has none to offer, and 'signer missing' when the engine
\* is clique's and no wallet holds the beneficiary; a call that returned one of
\* the two has not authorized the engine, has not written the
\* accept-transactions flag and has not started the miner.
C12_FailedStartMiningTouchesNothing ==
  /\ (mpc = "idle" /\ mresult # "") =>
       /\ (ruebase = ZeroAddr /\ LookupAccount(amWallets) = <<>>)
            <=> mresult = "ruebase missing"
       /\ (ruebase # ZeroAddr /\ IsClique(engine) /\ FindWallet(amWallets, ruebase) = 0)
            <=> mresult = "signer missing"
  /\ StartMiningFailed =>
       Made \cap {"clique.Authorize", "atomic.StoreUint32", "go s.miner.Start"} = {}
  /\ (StartMiningFailed /\ mcalls = 1) =>
       /\ signer = <<>>
       /\ pendingStarts = <<>>
       /\ ~mining

\* A StartMining(local = true) on a clique engine failed for want of a signer.
C12_Witness ==
  /\ StartMiningFailed /\ mresult = "signer missing" /\ mlocal
  /\ IsClique(engine) /\ ruebase # ZeroAddr
  /\ acceptTxs = 0 /\ signer = <<>>

RulesFlagBlock ==
  [IsHomestead |-> "HomesteadBlock", IsEIP150 |-> "EIP150Block",
   IsEIP155 |-> "EIP155Block", IsEIP158 |-> "EIP158Block",
   IsByzantium |-> "ByzantiumBlock"]

\* C14: every boolean of a struct Rules returned says whether its fork is
\* scheduled at or below num; the struct's ChainId is never nil, is a big.Int
\* of its own, and held at return the schedule's chain id or 0 when that is
\* unset; two calls returned equal values; and neither a call nor a change
\* made to a returned struct changes the schedule.
C14_RulesSnapshot ==
  /\ [](\A i \in 1 .. Len(rules) :
          /\ \A flag \in DOMAIN RulesFlagBlock :
               rules[i].rules[flag] <=>
                 (/\ rcfg[RulesFlagBlock[flag]] # Nil /\ rnum # Nil
                  /\ rcfg[RulesFlagBlock[flag]] <= rnum)
          /\ rules[i].rules.ChainId # NilPtr
          /\ rules[i].rules.ChainId # rcfg.ChainId
          /\ \A j \in 1 .. Len(rules) :
               /\ rules[j].chainId = rules[i].chainId
               /\ \A flag \in DOMAIN RulesFlagBlock :
                    rules[j].rules[flag] = rules[i].rules[flag]
               /\ j # i => rules[j].rules.ChainId # rules[i].rules.ChainId
          /\ rules[i].chainId =
               (IF rcfg.ChainId = NilPtr THEN 0 ELSE heap[rcfg.ChainId[1]]))
  /\ [][/\ rcfg' = rcfg
        /\ rcfg.ChainId # NilPtr => heap'[rcfg.ChainId[1]] = heap[rcfg.ChainId[1]]]_vars

\* Two structs were returned for a schedule with a chain id, and the first was
\* given another chain id since.
C14_Witness ==
  /\ Len(rules) = 2 /\ rcfg.ChainId # NilPtr
  /\ heap[rcfg.ChainId[1]] = 1337
  /\ heap[rules[1].rules.ChainId[1]] = 2018
  /\ rules[2].chainId = 1337
  /\ rules[1].rules.IsEIP158 /\ ~rules[1].rules.IsByzantium

\* C15: with no Clique sub-config an engine is always returned: the fake
\* engine in fake mode, the tester in test mode, the shared engine in shared
\* mode, and in every other mode the production engine, built from the
\* configured cache and dataset settings, with its thread count set to -1.
C15_ProofOfWorkByMode ==
  (epc = "done" /\ chainConfig.Clique = NilPtr) =>
    /\ engine # NilPtr
    /\ engine.kind =
         (CASE powConfig.PowMode = "ModeFake" -> "ruehash.NewFaker"
            [] powConfig.PowMode = "ModeTest" -> "ruehash.NewTester"
            [] powConfig.PowMode = "ModeShared" -> "ruehash.NewShared"
            [] OTHER -> "ruehash.New")
    /\ engine.kind = "ruehash.New" =>
         /\ engine.threads = 0 - 1
         /\ engine.config # NilPtr
         /\ engine.config[1].CachesInMem = powConfig.CachesInMem
         /\ engine.config[1].CachesOnDisk = powConfig.CachesOnDisk
         /\ engine.config[1].DatasetDir = powConfig.DatasetDir
         /\ engine.config[1].DatasetsInMem = powConfig.DatasetsInMem
         /\ engine.config[1].DatasetsOnDisk = powConfig.DatasetsOnDisk
         /\ engine.config[1].CacheDir = <<"instance dir", powConfig.CacheDir>>

\* A mode that is none of ruehash's gave the production engine.
C15_Witness ==
  /\ epc = "done" /\ chainConfig.Clique = NilPtr
  /\ powConfig.PowMode = "ModeOther" /\ powConfig.CachesInMem = 1
  /\ engine.kind = "ruehash.New" /\ engine.threads = 0 - 1

\* ---- CheckCompatible: the fixed point ------------------------------------
\* The lower of the defined heights of fork f in the two schedules.
Lower(f) ==
  IF stored[f] = Nil THEN newcfg[f]
  ELSE IF newcfg[f] = Nil THEN stored[f]
  ELSE Min(stored[f], newcfg[f])

\* The lower heights of the boundaries that conflict at head h: the fork
\* heights, the DAO support flag (at the DAO fork) and the chain id (at EIP158).
ConflictHeights(h) ==
  { Lower(f) : f \in { g \in BlockSet : HeightConflict(g, h) } }
    \cup (IF SupportConflict(h) THEN {Lower("DAOForkBlock")} ELSE {})
    \cup (IF ChainIdConflict(h) THEN {Lower("EIP158Block")} ELSE {})

MinOf(S) == CHOOSE x \in S : \A y \in S : x <= y

\* C16 as stated: CheckCompatible returns nil iff no boundary conflicts at the
\* head height of the call, and otherwise an error whose RewindTo is the least,
\* over the conflicting boundaries, of the lower height minus one.
C16_MinimumRewind ==
  cpc = "done" =>
    /\ lasterr = NilErr <=> ConflictHeights(height) = {}
    /\ lasterr # NilErr => lasterr.RewindTo = MinOf(ConflictHeights(height)) - 1

\* C16 amended: the RewindTo is the least of the lower heights minus one, and 0
\* when that least height is 0.
C16_MinimumRewindOrZero ==
  cpc = "done" =>
    /\ lasterr = NilErr <=> ConflictHeights(height) = {}
    /\ lasterr # NilErr =>
         lasterr.RewindTo =
           (IF MinOf(ConflictHeights(height)) > 0
              THEN MinOf(ConflictHeights(height)) - 1 ELSE 0)

\* Two boundaries conflict at the head, and the one checked first is the
\* higher: the loop goes round to find the lower.
C16_Witness ==
  /\ cpc = "done"
  /\ HeightConflict("HomesteadBlock", height) /\ HeightConflict("ByzantiumBlock", height)
  /\ Lower("HomesteadBlock") = 2 /\ Lower("ByzantiumBlock") = 1
  /\ lasterr.RewindTo = 0 /\ lasterr.What = "Byzantium fork block"

\* The number of boundary checks of checkCompatible: the fork heights, the DAO
\* support flag and the chain id.
BoundaryChecks == Len(CompatBlocks) + 2

\* An iteration of the loop that does not exit it.
StaysInLoop == cpc = "loop" /\ cpc' = "loop" /\ iters' = iters + 1

\* C17 as stated: CheckCompatible returns, after at most BoundaryChecks + 1
\* invocations of checkCompatible, and every iteration that does not exit the
\* loop strictly lowers the head height.
C17_LoopTerminates ==
  /\ <>(cpc = "done")
  /\ [](iters <= BoundaryChecks + 1)
  /\ [][StaysInLoop => bhead' < bhead]_vars

\* C17 amended: every iteration that does not exit the loop strictly lowers
\* the head height, except the first iteration of a call at head height 0,
\* which leaves it at 0.
C17_LoopTerminatesLoweringOrAtZero ==
  /\ <>(cpc = "done")
  /\ [](iters <= BoundaryChecks + 1)
  /\ [](cpc = "done" => iters <= height + 2)
  /\ [][StaysInLoop => (bhead' < bhead \/ (iters = 0 /\ bhead = 0 /\ bhead' = 0))]_vars

\* A call at the greatest head height returned an error after three
\* invocations of checkCompatible.
C17_Witness ==
  /\ cpc = "done" /\ height = MaxHeight /\ iters = 3 /\ lasterr # NilErr

\* ---- checkCompatible: one invocation -------------------------------------
\* The What of the error checkCompatible returns for each fork height.
WhatOf ==
  [HomesteadBlock |-> "Homestead fork block", DAOForkBlock |-> "DAO fork block",
   EIP150Block |-> "EIP150 fork block", EIP155Block |-> "EIP155 fork block",
   EIP158Block |-> "EIP158 fork block", ByzantiumBlock |-> "Byzantium fork block"]

\* checkCompatible has been invoked once, at the head height of the call, and
\* returned nil (the loop is left at once) or an error (kept in lasterr).
FirstReturnedNil == iters = 1 /\ cpc = "done"
FirstReturnedError == iters = 1 /\ cpc = "loop"

\* The forks before f in the order of the checks.
Before(f) ==
  { CompatBlocks[j] : j \in { k \in 1 .. Len(CompatBlocks) :
      \E i \in 1 .. Len(CompatBlocks) : CompatBlocks[i] = f /\ k < i } }

\* C18: checkCompatible at head reports fork f exactly when f's heights differ
\* (nil against a height differs) and f is active at head under one of the
\* schedules, no check before f's having reported; it returns nil exactly when
\* no fork is in that case and neither the support flag nor the chain id
\* conflicts; so schedules that differ only in forks above head in both, or
\* unscheduled in one and above head in the other, give nil.
C18_ConflictIffDifferAndActive ==
  /\ FirstReturnedNil <=>
       (/\ iters = 1
        /\ \A f \in BlockSet : ~HeightConflict(f, height)
        /\ ~SupportConflict(height) /\ ~ChainIdConflict(height))
  /\ FirstReturnedError =>
       \A f \in BlockSet :
         lasterr.What = WhatOf[f] <=>
           /\ HeightConflict(f, height)
           /\ \A g \in Before(f) : ~HeightConflict(g, height)
           /\ ~(SupportConflict(height) /\ "DAOForkBlock" \in Before(f))
           /\ ~(ChainIdConflict(height) /\ "EIP158Block" \in Before(f))
  /\ (/\ iters = 1
      /\ stored.DAOForkSupport = newcfg.DAOForkSupport
      /\ stored.ChainId = newcfg.ChainId
      /\ \A f \in BlockSet :
           stored[f] # newcfg[f] =>
             /\ stored[f] = Nil \/ stored[f] > height
             /\ newcfg[f] = Nil \/ newcfg[f] > height)
       => FirstReturnedNil

\* A fork the stored schedule does not have is added at or below head.
C18_Witness ==
  /\ FirstReturnedError /\ lasterr.What = "EIP150 fork block"
  /\ stored.EIP150Block = Nil /\ newcfg.EIP150Block # Nil
  /\ newcfg.EIP150Block <= height
  /\ newcfg.ByzantiumBlock # stored.ByzantiumBlock

\* The first error is about a fork the stored configuration does not schedule
\* and the new one schedules at or below the head height.
FirstErrorAddsFork ==
  /\ FirstReturnedError
  /\ lasterr.StoredConfig = Nil /\ lasterr.NewConfig # Nil
  /\ lasterr.NewConfig <= height

\* C19 as stated: when the first conflict is at a fork the stored configuration
\* does not schedule and the new one schedules at c <= head, the rewind target
\* of the error is c.
C19_RewindToAddedHeight ==
  FirstErrorAddsFork => lasterr.RewindTo = lasterr.NewConfig

\* C19, amended: the rewind target is c - 1, the last block before the added
\* fork, and 0 when c is 0.
C19_RewindBelowAddedHeight ==
  FirstErrorAddsFork =>
    lasterr.RewindTo = (IF lasterr.NewConfig > 0 THEN lasterr.NewConfig - 1 ELSE 0)

C19_Witness ==
  /\ FirstErrorAddsFork /\ lasterr.NewConfig = MaxHeight
  /\ lasterr.RewindTo = MaxHeight - 1 /\ bhead = MaxHeight - 1

\* The new configuration is the stored one with the other DAO support flag.
OnlySupportDiffers == newcfg = [stored EXCEPT !.DAOForkSupport = ~@]

\* The first error is about the DAO support flag.
FirstErrorIsSupport == FirstReturnedError /\ lasterr.What = "DAO fork support flag"

\* The support flag part of C20, common to the statement and its amendment:
\* checkCompatible reports the flag only when the flags differ and the stored
\* DAO fork is active at head; a call whose schedules differ in the flag alone
\* returns nil exactly when the stored DAO fork is unscheduled or above head.
SupportComparedOnlyWhenActive ==
  /\ FirstErrorIsSupport => SupportConflict(height)
  /\ (OnlySupportDiffers /\ iters = 1) =>
       (FirstReturnedError <=> SupportConflict(height))
  /\ (OnlySupportDiffers /\ cpc = "done") =>
       (lasterr = NilErr <=> (stored.DAOForkBlock = Nil \/ stored.DAOForkBlock > height))

\* C20 as stated: the support flags are compared only when the stored DAO fork
\* is active at head; when they conflict the rewind target is the DAO fork
\* height minus one, and at that height the flags no longer conflict.
C20_SupportFlagTolerance ==
  /\ SupportComparedOnlyWhenActive
  /\ FirstErrorIsSupport =>
       /\ lasterr.RewindTo = stored.DAOForkBlock - 1
       /\ ~SupportConflict(lasterr.RewindTo)

\* C20, amended: as stated when the DAO fork height is above 0, and the call
\* whose schedules differ in the flag alone then ends at its second check, which
\* returns nil; when the DAO fork height is 0 the rewind target is 0, where the
\* flags still conflict.
C20_SupportFlagToleranceAboveZero ==
  /\ SupportComparedOnlyWhenActive
  /\ FirstErrorIsSupport =>
       IF stored.DAOForkBlock > 0
         THEN /\ lasterr.RewindTo = stored.DAOForkBlock - 1
              /\ ~SupportConflict(lasterr.RewindTo)
         ELSE /\ lasterr.RewindTo = 0
              /\ SupportConflict(lasterr.RewindTo)
  /\ (OnlySupportDiffers /\ cpc = "done" /\ lasterr # NilErr) =>
       /\ lasterr.What = "DAO fork support flag"
       /\ iters = 2
       /\ stored.DAOForkBlock > 0 =>
            checkCompatible(stored, newcfg, lasterr.RewindTo) = NilErr
       /\ stored.DAOForkBlock = 0 =>
            checkCompatible(stored, newcfg, lasterr.RewindTo) = lasterr

C20_Witness ==
  /\ OnlySupportDiffers /\ cpc = "done" /\ iters = 2
  /\ lasterr.What = "DAO fork support flag"
  /\ stored.DAOForkBlock = MaxHeight /\ height = MaxHeight
  /\ lasterr.RewindTo = MaxHeight - 1

\* ---- StartMining on clique ---------------------------------------------
\* The positions of the current call's trace where the miner is handed off.
MinerHandoffs == { i \in 1 .. Len(mtrace) : mtrace[i][1] = "go s.miner.Start" }

\* C21: when StartMining on a clique engine hands off to the miner, the same
\* call has before that authorized the engine with the beneficiary s.Ruebase
\* returned and with the SignHash of the wallet that holds it; the hand-off
\* carries that beneficiary, and a started miner holds a beneficiary handed off.
C21_AuthorizedBeforeMinerStart ==
  /\ [](IsClique(engine) =>
         \A i \in MinerHandoffs :
           /\ mtrace[i] = <<"go s.miner.Start", meb>>
           /\ \E j \in 1 .. (i - 1) : mtrace[j] = <<"clique.Authorize", meb>>
           /\ \E j \in 1 .. (i - 1) : mtrace[j] = <<"s.Ruebase">>
           /\ FindWallet(amWallets, meb) # 0
           /\ signer = <<[signer |-> meb, signFn |-> FindWallet(amWallets, meb)]>>)
  /\ [][/\ Len(pendingStarts') > Len(pendingStarts) =>
            /\ pendingStarts' = Append(pendingStarts, meb)
            /\ meb = ruebase
            /\ IsClique(engine) =>
                 signer = <<[signer |-> meb, signFn |-> FindWallet(amWallets, meb)]>>
        /\ (mining' /\ ~mining) =>
             \E i \in 1 .. Len(pendingStarts) : minerBase' = pendingStarts[i]]_vars

\* The miner runs with the beneficiary a call on a clique engine authorized.
C21_Witness ==
  /\ IsClique(engine) /\ mpc = "idle" /\ mresult = "nil"
  /\ MinerHandoffs # {}
  /\ mining /\ minerBase = meb
  /\ signer # <<>> /\ signer[1].signer = meb /\ signer[1].signFn = 2

\* ---- The accept-transactions flag ---------------------------------------
\* C22: the flag changes only at StartMining's store, in a call with local
\* set that goes on to return nil, and the store writes 1, takes no lock and
\* waits for none; so no call with local unset, no failed call, no StopMining
\* and no SetRuebase or Ruebase changes it, and a flag that is 1 stays 1.  A
\* StartMining(local = true) that returned nil leaves it 1.
C22_AcceptTxsOnlySetByLocalStart ==
  /\ [][acceptTxs' # acceptTxs =>
          /\ mpc = "local" /\ mlocal /\ mpc' = "go"
          /\ acceptTxs' = 1
          /\ readers' = readers /\ writer' = writer /\ ruebase' = ruebase]_vars
  /\ [][acceptTxs = 1 => acceptTxs' = 1]_vars
  /\ [][(mpc = "go" /\ mpc' # "go") => mresult' = "nil"]_vars
  /\ [](mpc = "local" => ENABLED SmLocal)
  /\ []((mpc = "go" /\ mlocal) => acceptTxs = 1)
  /\ []((mpc = "idle" /\ mresult = "nil" /\ mlocal) => acceptTxs = 1)

\* The flag has been stored while a caller of SetRuebase holds s.lock.
C22_Witness ==
  /\ mpc = "go" /\ mlocal /\ acceptTxs = 1
  /\ mtrace[Len(mtrace)] = <<"atomic.StoreUint32", 1>>
  /\ writer # 0 /\ \E p \in Callers : pc[p] = "sr_write2"

\* ---- New ---------------------------------------------------------------
\* The positions of New's trace where it called f.
CallsOf(f) == { i \in 1 .. Len(newTrace) : newTrace[i][1] = f }

\* What New makes after the rewind.
LaterSubsystems ==
  {"rue.bloomIndexer.Start", "core.NewTxPool", "NewProtocolManager", "miner.New"}

\* C23: an error of genesis setup that is not a compatibility error makes New
\* return it, no chain built; a compatibility error does not: once the chain is
\* built, New sets the head to the error's RewindTo and then writes the chain
\* configuration, each once, before it starts the bloom indexer and makes the
\* transaction pool, the protocol manager and the miner, and New can return nil.
\* Without a compatibility error New does neither.
C23_CompatErrorRewindsBeforeSubsystems ==
  /\ (newPc = "returned" /\ newInput.genesisErr.kind = "other"
        /\ CallsOf("core.SetupGenesisBlock") # {})
       => /\ newResult = "genesisErr"
          /\ CallsOf("core.NewBlockChain") = {}
  /\ newResult = "genesisErr" => newInput.genesisErr.kind = "other"
  /\ (newInput # <<>> /\ newInput.genesisErr.kind = "ConfigCompatError") =>
       /\ newPc \in {"bloom", "txpool", "protocol manager", "miner"}
            \/ newResult \in {"nil", "NewProtocolManager error"}
          => /\ \E i \in 1 .. Len(newTrace) :
                  /\ CallsOf("rue.blockchain.SetHead") = {i}
                  /\ CallsOf("core.WriteChainConfig") = {i + 1}
                  /\ newTrace[i][2] = newInput.genesisErr.RewindTo
                  /\ \A j \in CallsOf("core.NewBlockChain") : j < i
       /\ \A f \in LaterSubsystems : \A j \in CallsOf(f) :
            /\ \E i \in CallsOf("rue.blockchain.SetHead") : i < j
            /\ \E i \in CallsOf("core.WriteChainConfig") : i < j
       /\ (newPc = "returned" /\ ~newInput.newBlockChainErr
             /\ ~newInput.newProtocolManagerErr
             /\ (newInput.SkipBcVersionCheck
                   \/ newInput.bcVersion \in {"0", "core.BlockChainVersion"})
             /\ newInput.SyncMode \in {"FullSync", "FastSync"}
             /\ ~newInput.createDBErr)
            => newResult = "nil"
  /\ (newInput # <<>> /\ newInput.genesisErr.kind # "ConfigCompatError") =>
       /\ CallsOf("rue.blockchain.SetHead") = {}
       /\ CallsOf("core.WriteChainConfig") = {}

\* New returned the node after a rewind to a height above 0.
C23_Witness ==
  /\ newPc = "returned" /\ newResult = "nil"
  /\ newInput.genesisErr = [kind |-> "ConfigCompatError", RewindTo |-> MaxHeight]
  /\ CallsOf("rue.blockchain.SetHead") # {}
  /\ CallsOf("miner.New") # {}

\* ---- The miner's beneficiary ---------------------------------------------
\* No caller is inside Ruebase or SetRuebase.
Quiescent == \A p \in Callers : pc[p] = "idle"

\* C24: when every call of SetRuebase and Ruebase has returned, and SetRuebase
\* has been called, the beneficiary the miner holds is the one stored in the
\* node.
C24_MinerAgreesWithNode ==
  (Quiescent /\ lastSet # <<>>) => minerBase = ruebase

\* The same of SetRuebase calls alone: no Ruebase call has resolved or
\* returned anything.  Two calls that write the node in one order and the
\* miner in the other refute it.
MinerAgreesAfterSetsAlone ==
  (Quiescent /\ lastSet # <<>> /\ lastCall.op = "SetRuebase" /\ resolved = {}
     /\ \A p \in Callers : saw[p] = NoSaw)
    => minerBase = ruebase

\* ---- StopMining after StartMining ----------------------------------------
\* StopMining has been called after the last StartMining call returned nil.
StoppedAfterStart ==
  /\ mpc = "idle" /\ mresult = "nil"
  /\ mtrace # <<>> /\ mtrace[Len(mtrace)] = <<"s.miner.Stop">>

\* C25: StartMining returns nil with the miner handed off, started or not;
\* and if from some point on StopMining has been called after a StartMining
\* that returned nil, with no StartMining call after it, then from some point
\* on the miner is not mining.
C25_StopAfterStartWins ==
  /\ []((mpc = "idle" /\ mresult = "nil" /\ mcalls = 1) =>
          (mining \/ pendingStarts # <<>>))
  /\ (<>[]StoppedAfterStart) => (<>[]~mining)

\* ---- RewindTo ------------------------------------------------------------
\* The lower of the heights an error carries, Nil if it carries none.
LowerOf(e) ==
  IF e.StoredConfig = Nil THEN e.NewConfig
  ELSE IF e.NewConfig = Nil THEN e.StoredConfig
  ELSE Min(e.StoredConfig, e.NewConfig)

\* C26: whenever CheckCompatible is about to call checkCompatible at bhead and
\* the call returns an error, the error carries a height, its lower height is
\* at most bhead, its RewindTo is that height minus one and below bhead when
\* the height is above 0 and is 0 when it is 0, never negative, and it is not
\* above the RewindTo of the error before it, which is bhead; the error kept
\* has a RewindTo at or below the head height of the call.
C26_RewindToBounded ==
  /\ cpc = "loop" =>
       LET e == checkCompatible(stored, newcfg, bhead) IN
         e # NilErr =>
           /\ LowerOf(e) # Nil /\ LowerOf(e) <= bhead
           /\ e.RewindTo >= 0 /\ e.RewindTo <= bhead
           /\ LowerOf(e) > 0 => (e.RewindTo = LowerOf(e) - 1 /\ e.RewindTo < bhead)
           /\ LowerOf(e) = 0 => e.RewindTo = 0
           /\ lasterr # NilErr =>
                (bhead = lasterr.RewindTo /\ e.RewindTo <= lasterr.RewindTo)
  /\ lasterr # NilErr =>
       /\ lasterr.RewindTo <= height
       /\ lasterr.RewindTo <= bhead
       /\ LowerOf(lasterr) = 0 => lasterr.RewindTo = 0

\* The second error of a call rewinds below the first, down to 0.
C26_Witness ==
  /\ cpc = "loop" /\ iters = 2 /\ height = MaxHeight
  /\ lasterr # NilErr /\ LowerOf(lasterr) = 1 /\ lasterr.RewindTo = 0
  /\ bhead = 0

\* ---- The chain id ---------------------------------------------------------
\* The new configuration is the stored one with another chain id, nil or not.
OnlyChainIdDiffers ==
  /\ newcfg.ChainId # stored.ChainId
  /\ newcfg = [stored EXCEPT !.ChainId = newcfg.ChainId]

\* The rewind target below the stored EIP158 fork.
BelowEIP158 == IF stored.EIP158Block > 0 THEN stored.EIP158Block - 1 ELSE 0

\* C27: for schedules that differ in the chain id alone, checkCompatible at
\* head returns an error, about the chain id, exactly when the stored EIP158
\* fork is scheduled at or below head; the error's rewind target is the EIP158
\* height minus one, 0 when that height is 0, and CheckCompatible returns that
\* error; with EIP158 unscheduled or above head CheckCompatible returns nil.
C27_ChainIdConflictIffEIP158Active ==
  OnlyChainIdDiffers =>
    /\ iters = 1 =>
         (FirstReturnedError <=>
            (stored.EIP158Block # Nil /\ stored.EIP158Block <= height))
    /\ FirstReturnedError =>
         /\ lasterr.What = "EIP158 chain ID"
         /\ lasterr.RewindTo = BelowEIP158
    /\ cpc = "done" =>
         IF stored.EIP158Block # Nil /\ stored.EIP158Block <= height
           THEN /\ lasterr.What = "EIP158 chain ID"
                /\ lasterr.RewindTo = BelowEIP158
                /\ iters = 2
           ELSE lasterr = NilErr /\ iters = 1

\* A chain id is given to a schedule that had none, EIP158 long active.
C27_Witness ==
  /\ OnlyChainIdDiffers /\ stored.ChainId = Nil /\ newcfg.ChainId = 1337
  /\ cpc = "done" /\ lasterr.What = "EIP158 chain ID"
  /\ stored.EIP158Block = 1 /\ height = MaxHeight /\ lasterr.RewindTo = 0

====
